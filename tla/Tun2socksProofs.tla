--------------------------- MODULE Tun2socksProofs ---------------------------
(***************************************************************************)
(* Proofs about Tun2socks: whatever job or callback ends the client, its   *)
(* pcb or its SOCKS connection, the three agree, nothing freed is written  *)
(* to, lwIP is told of every abort, and both directions keep their bytes.  *)
(***************************************************************************)
EXTENDS Tun2socks, SequenceTheorems, TLAPS

------------------------------------------------------------------------------
(* The invariant *)

Clients ==
    [live : BOOLEAN, aborted : BOOLEAN, dead : {"null", "frame", "stale"},
     client_closed : BOOLEAN, buf : Seq(Nat), socks_up : BOOLEAN, socks_closed : BOOLEAN,
     rbuf : Seq(Nat), rsent : Nat, waiting : BOOLEAN, pending : Nat]

Pcbs ==
    [state : PcbOpen \cup {"syn_rcvd", "closing", "freed"}, wnd : Nat, unacked : Nat,
     end : {"none", "fin", "rst"}, recv : BOOLEAN, sent : BOOLEAN, err : BOOLEAN,
     refused : BOOLEAN]

Steps == {"sending_hello", "sent_hello", "sending_request", "sent_request",
          "received_reply_header"}

Connections ==
    [state : Steps \cup {"none", "connecting", "up", "freed"}, send : {"ready", "busy"},
     recv : {"ready", "busy"}]

Calls == [fn : {"none", "accept", "recv", "sent"}, killed : -1..1, abrt : BOOLEAN]

JobLists == {<<>>, <<"connected">>, <<"control">>, <<"send">>, <<"recv">>,
             <<"send", "recv">>, <<"recv", "send">>}

Systems ==
    [c : Clients, pcb : Pcbs, sk : Connections, jobs : JobLists, call : Calls,
     wild : BOOLEAN, up : Seq(Nat), down : Seq(Nat)]

Envs ==
    [sent : 0..UpBytes, fin : BOOLEAN, answer : 0..DownBytes, read : 0..DownBytes,
     eof : BOOLEAN, failed : BOOLEAN, quit : BOOLEAN]

\* The client has its pcb, and its SOCKS connection.
HasPcb(s) == s.c.live /\ ~s.c.client_closed

HasSocks(s) == s.c.live /\ ~s.c.socks_closed

\* What dead_aborted points to, and what was written there.
DeadOK(s) ==
    /\ s.call.fn = "none" => s.c.dead = "null" \/ (s.c.dead = "stale" /\ s.c.aborted)
    /\ s.call.fn # "none" =>
           /\ s.call.killed > 0 <=> s.call.abrt
           /\ s.c.live => s.c.dead = "frame" /\ s.call.killed = IF s.c.aborted THEN 1 ELSE 0

\* A client that is there has one side at least.
ClientOK(s) ==
    /\ ~s.c.live => s.c = NoClient
    /\ s.c.live => ~(s.c.client_closed /\ s.c.socks_closed)
    /\ s.c.aborted => s.c.client_closed

PcbOK(s) ==
    /\ s.pcb.recv <=> HasPcb(s) /\ HasSocks(s)
    /\ s.pcb.sent <=> HasPcb(s) /\ s.c.socks_up
    /\ s.pcb.err <=> HasPcb(s)
    /\ s.pcb.state \in PcbOpen <=> HasPcb(s)
    /\ HasPcb(s) /\ ~HasSocks(s) => s.c.socks_up
    /\ ~s.pcb.refused

SkOK(s) ==
    /\ ~HasSocks(s) => /\ s.jobs = <<>> /\ s.sk.send = "ready" /\ s.sk.recv = "ready"
                       /\ s.sk.state \in {"none", "freed"}
    /\ HasSocks(s) => /\ s.sk.state \notin {"none", "freed"}
                      /\ s.c.socks_up <=> s.sk.state = "up"
                      /\ s.sk.send = "busy" <=> s.c.socks_up /\ s.c.buf # <<>>
                      /\ s.sk.recv = "busy" => s.c.socks_up
    /\ s.jobs = <<"connected">> => s.sk.state = "connecting"
    /\ s.jobs = <<"control">> => s.sk.state \in Steps
    /\ s.jobs \in {<<"send">>, <<"send", "recv">>, <<"recv", "send">>} => s.sk.send = "busy"
    /\ s.jobs \in {<<"recv">>, <<"send", "recv">>, <<"recv", "send">>} => s.sk.recv = "busy"

WndOK(s) ==
    /\ s.pcb.wnd <= Wnd /\ Len(s.c.buf) <= Wnd
    /\ HasPcb(s) /\ HasSocks(s) => s.pcb.wnd + Len(s.c.buf) = Wnd

PendingOK(s) ==
    /\ s.pcb.unacked <= SndBuf /\ s.c.pending <= SndBuf
    /\ HasPcb(s) => s.c.pending = s.pcb.unacked
    /\ ~s.c.socks_up => s.c.rbuf = <<>> /\ s.c.pending = 0

ReadOK(s) ==
    /\ HasPcb(s) /\ s.c.rbuf = <<>> => s.c.rsent = 0
    /\ HasPcb(s) /\ s.c.rbuf # <<>> => s.c.rsent < Len(s.c.rbuf) /\ s.c.waiting /\ s.c.pending > 0
    /\ HasPcb(s) /\ HasSocks(s) /\ s.c.socks_up => (s.sk.recv = "busy" <=> s.c.rbuf = <<>>)

\* The bytes a + 1 to a + n.
Run(a, n) == [i \in 1..n |-> a + i]

UpOK(s, e) ==
    /\ s.up = Run(0, Len(s.up)) /\ Len(s.up) <= e.sent
    /\ s.c.live => s.c.buf = Run(Len(s.up), Len(s.c.buf)) /\ Len(s.up) + Len(s.c.buf) <= e.sent
    /\ HasSocks(s) => Len(s.up) + Len(s.c.buf) = e.sent

DownOK(s, e) ==
    /\ s.down = Run(0, Len(s.down)) /\ Len(s.down) <= e.read /\ e.read <= e.answer
    /\ s.c.live => /\ s.c.rsent <= Len(s.c.rbuf) /\ Len(s.c.rbuf) <= RecvBuf
                   /\ s.c.rsent <= Len(s.down)
                   /\ s.c.rbuf = Run(Len(s.down) - s.c.rsent, Len(s.c.rbuf))
                   /\ Len(s.down) - s.c.rsent + Len(s.c.rbuf) <= e.read
    /\ HasPcb(s) => Len(s.down) - s.c.rsent + Len(s.c.rbuf) = e.read

EndOK(s, e) ==
    /\ s.pcb.end = "fin" /\ ~e.fin =>
           ~s.c.live /\ Len(s.down) = e.read /\ (e.failed \/ e.read = e.answer)
    /\ s.c.live /\ ~HasSocks(s) => e.failed \/ e.read = e.answer
    /\ e.fin => ~HasPcb(s)
    /\ e.fin /\ ~s.c.live /\ ~e.failed /\ ~e.eof /\ ~e.quit => Len(s.up) = e.sent
    /\ s.pcb.state = "syn_rcvd" =>
           /\ s.pcb.wnd = Wnd /\ s.pcb.unacked = 0 /\ s.pcb.end = "none"
           /\ e.sent = 0 /\ e.read = 0 /\ ~e.fin /\ ~s.c.live

SystemOK(s, e) ==
    /\ s \in Systems /\ e \in Envs /\ ~s.wild
    /\ DeadOK(s) /\ ClientOK(s) /\ PcbOK(s) /\ SkOK(s) /\ WndOK(s) /\ PendingOK(s) /\ ReadOK(s)
    /\ UpOK(s, e) /\ DownOK(s, e) /\ EndOK(s, e)

------------------------------------------------------------------------------
(* What the operators leave alone *)

Beside(t, s) == t.wild = s.wild /\ t.up = s.up /\ t.down = s.down

\* DEAD_KILL_WITH writes into the callback that is running, if any.
LEMMA KillFields ==
    ASSUME NEW s \in Systems, NEW v \in -1..1, s.c.dead # "stale"
    PROVE  LET t == DeadKill(s, v)
           IN  /\ t \in Systems /\ Beside(t, s) /\ t.c = s.c /\ t.pcb = s.pcb /\ t.sk = s.sk
               /\ t.jobs = s.jobs /\ t.call.fn = s.call.fn /\ t.call.abrt = s.call.abrt
               /\ t.call.killed = IF s.c.dead = "frame" THEN v ELSE s.call.killed
<1>1. CASE s.c.dead = "null"
  BY <1>1 DEF DeadKill, Beside
<1>2. CASE s.c.dead = "frame"
  <2>1. DeadKill(s, v) = [s EXCEPT !.call.killed = v]
    BY <1>2 DEF DeadKill
  <2>2. QED BY <2>1, <1>2, ZenonT(60) DEF Systems, Calls, Beside
<1>3. QED BY <1>1, <1>2 DEF Systems, Clients

\* client_dealloc frees the client once and tells the callback.
LEMMA DeallocFields ==
    ASSUME NEW s \in Systems, s.c.live, DeadOK(s)
    PROVE  LET t == client_dealloc(s)
           IN  /\ t \in Systems /\ Beside(t, s) /\ t.c = NoClient /\ t.pcb = s.pcb /\ t.sk = s.sk
               /\ t.jobs = s.jobs /\ DeadOK(t)
<1> DEFINE u == IF s.c.aborted THEN s ELSE DeadKill(s, -1)
           t == [u EXCEPT !.c = NoClient, !.wild = @ \/ ~s.c.live]
<1>1. s.c.aborted \in BOOLEAN /\ s.wild \in BOOLEAN /\ s.c.dead \in {"null", "frame", "stale"}
      /\ s.call.fn \in {"none", "accept", "recv", "sent"} /\ s.call.abrt \in BOOLEAN
  BY DEF Systems, Clients, Calls
<1>2. /\ u \in Systems /\ Beside(u, s) /\ u.c = s.c /\ u.pcb = s.pcb /\ u.sk = s.sk /\ u.jobs = s.jobs
      /\ u.call.fn = s.call.fn /\ u.call.abrt = s.call.abrt
      /\ u.call.killed = IF ~s.c.aborted /\ s.c.dead = "frame" THEN -1 ELSE s.call.killed
  <2>1. CASE s.c.aborted
    BY <2>1 DEF Beside
  <2>2. CASE ~s.c.aborted
    <3>1. s.c.dead # "stale"
      BY <2>2, <1>1 DEF DeadOK
    <3>2. -1 \in -1..1
      OBVIOUS
    <3>3. QED BY <2>2, <3>1, <3>2, KillFields
  <2>3. QED BY <2>1, <2>2
<1> HIDE DEF u
<1>3. NoClient \in Clients
  BY DEF NoClient, Clients
<1>4. t \in Systems /\ t.c = NoClient /\ t.pcb = u.pcb /\ t.sk = u.sk /\ t.jobs = u.jobs
      /\ t.call = u.call /\ t.up = u.up /\ t.down = u.down /\ t.wild = u.wild
  BY <1>1, <1>2, <1>3 DEF Systems, Beside
<1>5. NoClient.dead = "null" /\ NoClient.live = FALSE
  BY DEF NoClient
<1>6. DeadOK(t)
  BY <1>1, <1>2, <1>4, <1>5 DEF DeadOK
<1>7. client_dealloc(s) = t
  BY DEF client_dealloc, u
<1>8. QED BY <1>2, <1>4, <1>6, <1>7 DEF Beside

\* client_abort_pcb: the pcb is gone and the callback knows it.
LEMMA AbortFields ==
    ASSUME NEW s \in Systems, s.c.live, ~s.c.aborted, DeadOK(s)
    PROVE  LET t == client_abort_pcb(s)
           IN  /\ t \in Systems /\ Beside(t, s) /\ t.c = [s.c EXCEPT !.aborted = TRUE]
               /\ t.pcb = [s.pcb EXCEPT !.state = "freed", !.end = "rst"]
               /\ t.sk = s.sk /\ t.jobs = s.jobs /\ DeadOK(t)
<1> DEFINE u == [s EXCEPT !.pcb.state = "freed", !.pcb.end = "rst",
                          !.call.abrt = TRUE, !.c.aborted = TRUE]
           t == DeadKill(u, 1)
<1>1. /\ u \in Systems /\ Beside(u, s) /\ u.c = [s.c EXCEPT !.aborted = TRUE]
      /\ u.pcb = [s.pcb EXCEPT !.state = "freed", !.end = "rst"] /\ u.sk = s.sk /\ u.jobs = s.jobs
      /\ u.call.fn = s.call.fn /\ u.call.abrt = TRUE /\ u.call.killed = s.call.killed
      /\ u.c.live = s.c.live /\ u.c.dead = s.c.dead /\ u.c.aborted = TRUE
  BY DEF Systems, Clients, Pcbs, Calls, Beside
<1>2. s.c.dead # "stale" /\ s.c.dead \in {"null", "frame", "stale"} /\ s.c.aborted \in BOOLEAN
  BY DEF DeadOK, Systems, Clients
<1> HIDE DEF u
<1>3. /\ t \in Systems /\ Beside(t, u) /\ t.c = u.c /\ t.pcb = u.pcb /\ t.sk = u.sk
      /\ t.jobs = u.jobs /\ t.call.fn = u.call.fn /\ t.call.abrt = u.call.abrt
      /\ t.call.killed = IF u.c.dead = "frame" THEN 1 ELSE u.call.killed
  <2>1. 1 \in -1..1 /\ u.c.dead # "stale"
    BY <1>1, <1>2
  <2>2. QED BY <2>1, <1>1, KillFields
<1> HIDE DEF t
<1>4. DeadOK(t)
  BY <1>1, <1>2, <1>3 DEF DeadOK
<1>5. client_abort_pcb(s) = t
  BY DEF client_abort_pcb, u, t
<1>6. QED BY <1>1, <1>3, <1>4, <1>5 DEF Beside

\* SocksFreed: the connection and its jobs are gone.
LEMMA SocksFreedFields ==
    ASSUME NEW s \in Systems
    PROVE  LET t == SocksFreed(s)
           IN  /\ t \in Systems /\ Beside(t, s) /\ t.c = [s.c EXCEPT !.socks_closed = TRUE]
               /\ t.pcb = [s.pcb EXCEPT !.recv = @ /\ (~s.c.socks_up \/ s.c.client_closed)]
               /\ t.sk = [state |-> "freed", send |-> "ready", recv |-> "ready"] /\ t.jobs = <<>>
               /\ t.call = s.call
  BY DEF SocksFreed, BSocksClient_Free, Systems, Clients, Pcbs, Connections, JobLists, Beside
------------------------------------------------------------------------------
(* The pcb is gone *)

\* The fields of a client that outlives one of its sides.
KeepsBuffers(t, s) ==
    /\ t.c.live = s.c.live /\ t.c.buf = s.c.buf /\ t.c.socks_up = s.c.socks_up
    /\ t.c.rbuf = s.c.rbuf /\ t.c.rsent = s.c.rsent /\ t.c.waiting = s.c.waiting
    /\ t.c.pending = s.c.pending

NoCallbacks(t) == ~t.pcb.recv /\ ~t.pcb.sent /\ ~t.pcb.err

\* The pcb of s is gone in t: the client stays while it has data for SOCKS.
Gone(t, s) ==
    /\ t \in Systems /\ Beside(t, s) /\ DeadOK(t) /\ NoCallbacks(t)
    /\ t.pcb.state \in {"closing", "freed"} /\ t.pcb.end \in {"fin", "rst"}
    /\ t.pcb.wnd = s.pcb.wnd /\ t.pcb.unacked = s.pcb.unacked /\ t.pcb.refused = s.pcb.refused
    /\ s.c.buf # <<>> /\ ~s.c.socks_closed =>
           /\ KeepsBuffers(t, s) /\ t.c.client_closed /\ ~t.c.socks_closed
           /\ t.sk = s.sk /\ t.jobs = s.jobs
    /\ ~(s.c.buf # <<>> /\ ~s.c.socks_closed) =>
           /\ t.c = NoClient
           /\ ~s.c.socks_closed =>
                  /\ t.sk = [state |-> "freed", send |-> "ready", recv |-> "ready"]
                  /\ t.jobs = <<>>
           /\ s.c.socks_closed => t.sk = s.sk /\ t.jobs = s.jobs

\* client_handle_freed_client, once lwIP has no callback of the client.
LEMMA HandleFreed ==
    ASSUME NEW s \in Systems, s.c.live, DeadOK(s), NoCallbacks(s),
           s.pcb.state \in {"closing", "freed"}, s.pcb.end \in {"fin", "rst"}
    PROVE  Gone(client_handle_freed_client(s), s) /\ client_handle_freed_client(s).pcb = s.pcb
<1> DEFINE u == [s EXCEPT !.c.client_closed = TRUE]
           r == client_handle_freed_client(s)
<1>1. /\ u \in Systems /\ Beside(u, s) /\ KeepsBuffers(u, s) /\ u.c.client_closed
      /\ u.c.socks_closed = s.c.socks_closed /\ u.c.aborted = s.c.aborted /\ u.c.dead = s.c.dead
      /\ u.pcb = s.pcb /\ u.sk = s.sk /\ u.jobs = s.jobs /\ u.call = s.call
  BY DEF Systems, Clients, Beside, KeepsBuffers
<1>2. DeadOK(u) /\ u.c.live
  BY <1>1 DEF DeadOK, KeepsBuffers
<1>3. s.c.socks_closed \in BOOLEAN
  BY DEF Systems, Clients
<1> HIDE DEF u
<1>4. CASE s.c.buf # <<>> /\ ~s.c.socks_closed
  <2>1. r = u
    BY <1>1, <1>4 DEF client_handle_freed_client, u, KeepsBuffers
  <2>2. QED BY <2>1, <1>1, <1>2, <1>4 DEF Gone, NoCallbacks
<1>5. CASE ~(s.c.buf # <<>> /\ ~s.c.socks_closed)
  <2> DEFINE v == IF u.c.socks_closed THEN u ELSE SocksFreed(u)
  <2>1. r = client_dealloc(v)
    BY <1>1, <1>5 DEF client_handle_freed_client, u, KeepsBuffers
  <2>2. /\ v \in Systems /\ Beside(v, s) /\ v.c.live /\ DeadOK(v) /\ v.pcb = s.pcb
        /\ ~s.c.socks_closed => /\ v.sk = [state |-> "freed", send |-> "ready", recv |-> "ready"]
                                /\ v.jobs = <<>>
        /\ s.c.socks_closed => v.sk = s.sk /\ v.jobs = s.jobs
    <3>1. CASE s.c.socks_closed
      BY <3>1, <1>1, <1>2
    <3>2. CASE ~s.c.socks_closed
      <4>1. v = SocksFreed(u)
        BY <3>2, <1>1
      <4> HIDE DEF v
      <4>2. /\ v \in Systems /\ Beside(v, u) /\ v.c = [u.c EXCEPT !.socks_closed = TRUE]
            /\ v.pcb = [u.pcb EXCEPT !.recv = @ /\ (~u.c.socks_up \/ u.c.client_closed)]
            /\ v.sk = [state |-> "freed", send |-> "ready", recv |-> "ready"] /\ v.jobs = <<>>
            /\ v.call = u.call
        BY <4>1, <1>1, SocksFreedFields
      <4>3. v.c.live = u.c.live /\ v.c.dead = u.c.dead /\ v.c.aborted = u.c.aborted
        BY <4>2, <1>1 DEF Systems, Clients
      <4>4. v.pcb = s.pcb
        <5>1. s.pcb \in Pcbs /\ v.pcb = [s.pcb EXCEPT !.recv = FALSE] /\ s.pcb.recv = FALSE
          BY <4>2, <1>1, ZenonT(60) DEF NoCallbacks, Systems, Pcbs
        <5>2. QED BY <5>1 DEF Pcbs
      <4>5. DeadOK(v)
        BY <4>2, <4>3, <1>2 DEF DeadOK
      <4>6. QED BY <4>2, <4>3, <4>4, <4>5, <3>2, <1>1, <1>2 DEF Beside
    <3>3. QED BY <3>1, <3>2, <1>3
  <2> HIDE DEF v
  <2>3. /\ r \in Systems /\ Beside(r, v) /\ r.c = NoClient /\ r.pcb = v.pcb /\ r.sk = v.sk
        /\ r.jobs = v.jobs /\ DeadOK(r)
    BY <2>1, <2>2, DeallocFields
  <2> HIDE DEF r
  <2>4. QED BY <2>2, <2>3, <1>5 DEF Gone, NoCallbacks, Beside, r
<1>6. QED BY <1>4, <1>5

\* client_free_client and client_abort_client.
LEMMA ClientFreed ==
    ASSUME NEW s \in Systems, s.c.live, ~s.c.aborted, DeadOK(s)
    PROVE  /\ \A t \in client_free_client(s) : Gone(t, s)
           /\ Gone(client_abort_client(s), s) /\ client_abort_client(s).pcb.end = "rst"
           /\ client_abort_client(s) \in client_free_client(s)
<1> DEFINE u == CallbacksRemoved(s)
           a == client_abort_pcb(u)
           b == tcp_close(u)
<1>1. /\ u \in Systems /\ Beside(u, s) /\ u.c = s.c /\ u.call = s.call /\ NoCallbacks(u)
      /\ u.sk = s.sk /\ u.jobs = s.jobs
      /\ u.pcb.wnd = s.pcb.wnd /\ u.pcb.unacked = s.pcb.unacked /\ u.pcb.refused = s.pcb.refused
  BY DEF CallbacksRemoved, Systems, Pcbs, Beside, NoCallbacks
<1>2. DeadOK(u) /\ u.c.live /\ ~u.c.aborted
  BY <1>1 DEF DeadOK
<1> HIDE DEF u
<1>3. /\ a \in Systems /\ Beside(a, s) /\ KeepsBuffers(a, s) /\ DeadOK(a) /\ NoCallbacks(a)
      /\ a.sk = s.sk /\ a.jobs = s.jobs /\ a.pcb.state = "freed" /\ a.pcb.end = "rst"
      /\ a.pcb.wnd = s.pcb.wnd /\ a.pcb.unacked = s.pcb.unacked /\ a.pcb.refused = s.pcb.refused
      /\ a.c.socks_closed = s.c.socks_closed /\ a.c.live
  <2>1. /\ a \in Systems /\ Beside(a, u) /\ a.c = [u.c EXCEPT !.aborted = TRUE]
        /\ a.pcb = [u.pcb EXCEPT !.state = "freed", !.end = "rst"]
        /\ a.sk = u.sk /\ a.jobs = u.jobs /\ DeadOK(a)
    BY <1>1, <1>2, AbortFields
  <2> HIDE DEF a
  <2>2. u.pcb \in Pcbs /\ u.c \in Clients
    BY <1>1 DEF Systems
  <2>3. /\ a.pcb.state = "freed" /\ a.pcb.end = "rst" /\ a.pcb.wnd = u.pcb.wnd
        /\ a.pcb.unacked = u.pcb.unacked /\ a.pcb.refused = u.pcb.refused
        /\ a.pcb.recv = u.pcb.recv /\ a.pcb.sent = u.pcb.sent /\ a.pcb.err = u.pcb.err
    BY <2>1, <2>2 DEF Pcbs
  <2>4. KeepsBuffers(a, u) /\ a.c.socks_closed = u.c.socks_closed
    BY <2>1, <2>2 DEF Clients, KeepsBuffers
  <2>5. QED BY <2>1, <2>3, <2>4, <1>1, <1>2, ZenonT(60) DEF Beside, KeepsBuffers, NoCallbacks
<1>4. /\ b \in Systems /\ Beside(b, s) /\ KeepsBuffers(b, s) /\ DeadOK(b) /\ NoCallbacks(b)
      /\ b.sk = s.sk /\ b.jobs = s.jobs /\ b.pcb.state \in {"closing", "freed"}
      /\ b.pcb.end \in {"fin", "rst"}
      /\ b.pcb.wnd = s.pcb.wnd /\ b.pcb.unacked = s.pcb.unacked /\ b.pcb.refused = s.pcb.refused
      /\ b.c.socks_closed = s.c.socks_closed /\ b.c.live
  <2>1. PICK x \in {"closing", "freed"}, y \in {"fin", "rst"} :
            b = [u EXCEPT !.pcb.state = x, !.pcb.end = y]
    BY DEF tcp_close
  <2> HIDE DEF b
  <2>2. /\ b \in Systems /\ b.c = u.c /\ b.call = u.call /\ Beside(b, u) /\ b.sk = u.sk /\ b.jobs = u.jobs
        /\ b.pcb = [u.pcb EXCEPT !.state = x, !.end = y]
    BY <2>1, <1>1 DEF Systems, Pcbs, Beside
  <2>3. DeadOK(b)
    BY <2>2, <1>2 DEF DeadOK
  <2>4. u.pcb \in Pcbs
    BY <1>1 DEF Systems
  <2>5. /\ b.pcb.state = x /\ b.pcb.end = y /\ b.pcb.wnd = u.pcb.wnd
        /\ b.pcb.unacked = u.pcb.unacked /\ b.pcb.refused = u.pcb.refused
        /\ b.pcb.recv = u.pcb.recv /\ b.pcb.sent = u.pcb.sent /\ b.pcb.err = u.pcb.err
    BY <2>2, <2>4 DEF Pcbs
  <2>6. QED BY <2>2, <2>3, <2>5, <1>1, <1>2 DEF Beside, KeepsBuffers, NoCallbacks
<1> HIDE DEF a, b
<1>5. Gone(client_handle_freed_client(a), a) /\ client_handle_freed_client(a).pcb = a.pcb
      /\ Gone(client_handle_freed_client(b), b)
  BY <1>3, <1>4, HandleFreed
<1>6. Gone(client_handle_freed_client(a), s) /\ Gone(client_handle_freed_client(b), s)
  <2>1. ASSUME NEW x, NEW t, Gone(t, x), Beside(x, s), KeepsBuffers(x, s), x.sk = s.sk,
               x.jobs = s.jobs, x.pcb.wnd = s.pcb.wnd, x.pcb.unacked = s.pcb.unacked,
               x.pcb.refused = s.pcb.refused, x.c.socks_closed = s.c.socks_closed
        PROVE  Gone(t, s)
    BY <2>1 DEF Gone, Beside, KeepsBuffers
  <2>2. QED BY <2>1, <1>3, <1>4, <1>5
<1>7. client_free_client(s) = {client_handle_freed_client(b), client_handle_freed_client(a)}
      /\ client_abort_client(s) = client_handle_freed_client(a)
  BY DEF client_free_client, client_abort_client, u, a, b
<1>8. QED BY <1>3, <1>5, <1>6, <1>7
\* What has to hold before the pcb goes, also in the middle of a callback.
Mid(s, e) ==
    /\ s \in Systems /\ e \in Envs /\ ~s.wild
    /\ HasPcb(s) /\ ~s.c.aborted /\ ~s.pcb.refused /\ ~e.fin
    /\ DeadOK(s) /\ SkOK(s) /\ WndOK(s) /\ PendingOK(s) /\ UpOK(s, e) /\ DownOK(s, e)

\* Afterwards the client is in order.  f is the environment after it: unless the
\* application ended the connection, a FIN goes out when all was delivered.
LEMMA GoneKeeps ==
    ASSUME NEW s, NEW e, Mid(s, e), NEW t, Gone(t, s), NEW f \in Envs,
           f.sent = e.sent, f.read = e.read, f.answer = e.answer,
           f.fin => HasSocks(s),
           t.pcb.end = "fin" /\ ~f.fin =>
               ~HasSocks(s) /\ s.c.rbuf = <<>> /\ (f.failed \/ f.read = f.answer)
    PROVE  SystemOK(t, f)
<1>1. s.c \in Clients /\ s \in Systems /\ e \in Envs /\ t \in Systems /\ t.c \in Clients
      /\ s.up \in Seq(Nat) /\ s.down \in Seq(Nat)
  BY DEF Mid, Gone, Systems
<1>2. s.c.live /\ ~s.c.client_closed /\ s.c.socks_closed \in BOOLEAN
  BY <1>1 DEF Mid, HasPcb, Clients
<1>3. /\ Beside(t, s) /\ DeadOK(t) /\ NoCallbacks(t) /\ ~t.wild /\ ~t.pcb.refused
      /\ t.pcb.state \in {"closing", "freed"} /\ t.pcb.end \in {"fin", "rst"}
      /\ t.pcb.wnd = s.pcb.wnd /\ t.pcb.unacked = s.pcb.unacked
  BY DEF Gone, Mid, Beside
<1>4. t.pcb.state \notin PcbOpen
  BY <1>3 DEF PcbOpen
<1>5. CASE s.c.buf # <<>> /\ ~s.c.socks_closed
  <2>1. /\ KeepsBuffers(t, s) /\ t.c.client_closed /\ ~t.c.socks_closed
        /\ t.sk = s.sk /\ t.jobs = s.jobs
    BY <1>5 DEF Gone
  <2>2. ~HasPcb(t) /\ HasSocks(t) /\ HasSocks(s) /\ t.c.live
    BY <2>1, <1>2, <1>5 DEF HasPcb, HasSocks, KeepsBuffers
  <2>3. ClientOK(t)
    BY <2>1, <2>2 DEF ClientOK
  <2>4. PcbOK(t)
    BY <2>2, <1>3, <1>4 DEF PcbOK, NoCallbacks
  <2>5. SkOK(t)
    BY <2>1, <2>2 DEF Mid, SkOK, KeepsBuffers
  <2>6. WndOK(t) /\ PendingOK(t) /\ ReadOK(t)
    BY <2>1, <2>2, <1>3 DEF Mid, WndOK, PendingOK, ReadOK, KeepsBuffers
  <2>7. UpOK(t, f)
    BY <2>1, <2>2, <1>3 DEF Mid, UpOK, KeepsBuffers, Beside
  <2>8. DownOK(t, f)
    BY <2>1, <2>2, <1>2, <1>3 DEF Mid, DownOK, KeepsBuffers, Beside
  <2>9. EndOK(t, f)
    BY <2>2, <1>3 DEF EndOK
  <2>10. QED BY <2>3, <2>4, <2>5, <2>6, <2>7, <2>8, <2>9, <1>1, <1>3 DEF SystemOK
<1>6. CASE ~(s.c.buf # <<>> /\ ~s.c.socks_closed)
  <2>1. t.c = NoClient
    BY <1>6 DEF Gone
  <2>2. /\ ~t.c.live /\ t.c.dead = "null" /\ ~t.c.aborted /\ t.c.buf = <<>> /\ ~t.c.socks_up
        /\ t.c.rbuf = <<>> /\ t.c.pending = 0 /\ t.c.rsent = 0
    BY <2>1 DEF NoClient
  <2>3. ~HasPcb(t) /\ ~HasSocks(t)
    BY <2>2 DEF HasPcb, HasSocks
  <2>4. ClientOK(t)
    BY <2>1, <2>2 DEF ClientOK
  <2>5. PcbOK(t)
    BY <2>3, <1>3, <1>4 DEF PcbOK, NoCallbacks
  <2>6. /\ t.jobs = <<>> /\ t.sk.send = "ready" /\ t.sk.recv = "ready"
        /\ t.sk.state \in {"none", "freed"}
    <3>1. CASE s.c.socks_closed
      BY <3>1, <1>6 DEF Gone, Mid, SkOK, HasSocks
    <3>2. CASE ~s.c.socks_closed
      BY <3>2, <1>6 DEF Gone
    <3>3. QED BY <3>1, <3>2
  <2>7. SkOK(t)
    BY <2>3, <2>6 DEF SkOK
  <2>8. WndOK(t) /\ PendingOK(t) /\ ReadOK(t)
    <3>1. Len(t.c.buf) = 0
      BY <2>2
    <3>2. QED BY <2>2, <2>3, <3>1, <1>3, SizesAssumption DEF Mid, WndOK, PendingOK, ReadOK
  <2>9. UpOK(t, f)
    BY <2>2, <2>3, <1>3 DEF Mid, UpOK, Beside
  <2>10. DownOK(t, f)
    BY <2>2, <2>3, <1>3 DEF Mid, DownOK, Beside
  <2>11. f.fin => Len(t.up) = f.sent
    <3>1. ASSUME f.fin PROVE Len(s.up) = e.sent
      <4>1. HasSocks(s) /\ s.c.buf = <<>>
        BY <3>1, <1>2, <1>6 DEF HasSocks
      <4>2. Len(s.up) + 0 = e.sent /\ Len(s.up) \in Nat
        BY <4>1, <1>1 DEF Mid, UpOK
      <4>3. QED BY <4>2
    <3>2. QED BY <3>1, <1>3 DEF Beside
  <2>12. t.pcb.end = "fin" /\ ~f.fin => Len(t.down) = f.read
    <3>1. ASSUME s.c.rbuf = <<>> PROVE Len(s.down) = e.read
      <4>1. /\ s.c.rsent <= 0 /\ Len(s.down) - s.c.rsent + 0 = e.read
            /\ s.c.rsent \in Nat /\ Len(s.down) \in Nat /\ e.read \in Int
        BY <3>1, <1>1, <1>2, SizesAssumption DEF Mid, DownOK, Clients, Envs
      <4>2. QED BY <4>1
    <3>2. QED BY <3>1, <1>3 DEF Beside
  <2>13. EndOK(t, f)
    BY <2>2, <2>3, <2>11, <2>12, <1>3 DEF EndOK
  <2>14. QED BY <2>4, <2>5, <2>7, <2>8, <2>9, <2>10, <2>13, <1>1, <1>3 DEF SystemOK
<1>7. QED BY <1>5, <1>6
------------------------------------------------------------------------------
(* The SOCKS connection is gone *)

\* A client that had a pcb when it was in order could also lose it.
LEMMA OpenIsMid ==
    ASSUME NEW s, NEW e, SystemOK(s, e), HasPcb(s)
    PROVE  Mid(s, e) /\ s.pcb.end # "fin"
  BY DEF SystemOK, Mid, ClientOK, PcbOK, EndOK, HasPcb

\* client_free_socks keeps the client in order.  f is the environment after it.
LEMMA FreeSocksKeeps ==
    ASSUME NEW s, NEW e, SystemOK(s, e), HasSocks(s), NEW f \in Envs,
           f.sent = e.sent, f.read = e.read, f.answer = e.answer, f.fin = e.fin,
           f.failed \/ f.read = f.answer \/ s.c.client_closed,
           s.c.client_closed /\ f.fin /\ ~f.failed /\ ~f.eof => s.c.buf = <<>>
    PROVE  \A t \in client_free_socks(s) : SystemOK(t, f)
<1> DEFINE u == SocksFreed(s)
           unsent == u.c.socks_up /\ (u.c.rbuf # <<>> \/ u.c.pending > 0)
<1>1. s \in Systems /\ s.c \in Clients /\ e \in Envs /\ s.pcb \in Pcbs
      /\ s.up \in Seq(Nat) /\ s.down \in Seq(Nat)
  BY DEF SystemOK, Systems
<1>2. s.c.live /\ ~s.c.socks_closed /\ s.c.client_closed \in BOOLEAN /\ s.c.socks_up \in BOOLEAN
  BY <1>1 DEF HasSocks, Clients
<1>3. /\ u \in Systems /\ Beside(u, s) /\ u.c = [s.c EXCEPT !.socks_closed = TRUE]
      /\ u.pcb = [s.pcb EXCEPT !.recv = @ /\ (~s.c.socks_up \/ s.c.client_closed)]
      /\ u.sk = [state |-> "freed", send |-> "ready", recv |-> "ready"] /\ u.jobs = <<>>
      /\ u.call = s.call
  BY <1>1, SocksFreedFields
<1> HIDE DEF u
<1>4. /\ KeepsBuffers(u, s) /\ u.c.client_closed = s.c.client_closed /\ u.c.socks_closed
      /\ u.c.aborted = s.c.aborted /\ u.c.dead = s.c.dead
  BY <1>1, <1>3 DEF Clients, KeepsBuffers
<1>5. /\ u.pcb.recv = (s.pcb.recv /\ (~s.c.socks_up \/ s.c.client_closed))
      /\ u.pcb.sent = s.pcb.sent /\ u.pcb.err = s.pcb.err /\ u.pcb.state = s.pcb.state
      /\ u.pcb.end = s.pcb.end /\ u.pcb.wnd = s.pcb.wnd /\ u.pcb.unacked = s.pcb.unacked
      /\ u.pcb.refused = s.pcb.refused
  BY <1>1, <1>3 DEF Pcbs
<1>6. u.c.live /\ ~HasSocks(u) /\ (HasPcb(u) <=> HasPcb(s))
  BY <1>2, <1>4 DEF HasSocks, HasPcb, KeepsBuffers
<1>7. /\ DeadOK(s) /\ ClientOK(s) /\ PcbOK(s) /\ SkOK(s) /\ WndOK(s) /\ PendingOK(s) /\ ReadOK(s)
      /\ UpOK(s, e) /\ DownOK(s, e) /\ EndOK(s, e) /\ ~s.wild
  BY DEF SystemOK
<1>8. DeadOK(u)
  BY <1>2, <1>3, <1>4, <1>7 DEF DeadOK, KeepsBuffers
<1>9. SkOK(u)
  BY <1>3, <1>6 DEF SkOK
<1>10. WndOK(u) /\ PendingOK(u)
  BY <1>4, <1>5, <1>6, <1>7 DEF WndOK, PendingOK, KeepsBuffers
<1>11. UpOK(u, f) /\ UpOK(u, e)
  BY <1>2, <1>3, <1>4, <1>6, <1>7 DEF UpOK, Beside, KeepsBuffers
<1>12. DownOK(u, f) /\ DownOK(u, e)
  BY <1>2, <1>3, <1>4, <1>6, <1>7 DEF DownOK, Beside, KeepsBuffers
<1>13. ~u.wild
  BY <1>3, <1>7 DEF Beside
<1>14. CASE ~s.c.client_closed /\ unsent
  <2>1. client_free_socks(s) = {u}
    BY <1>4, <1>14 DEF client_free_socks, u
  <2>2. HasPcb(s) /\ HasPcb(u) /\ s.c.socks_up /\ u.c.socks_up
    BY <1>2, <1>4, <1>6, <1>14 DEF HasPcb, KeepsBuffers
  <2>3. ClientOK(u)
    BY <1>4, <1>6, <1>7, <1>14 DEF ClientOK
  <2>4. PcbOK(u)
    BY <2>2, <1>5, <1>6, <1>7, <1>14 DEF PcbOK
  <2>5. ReadOK(u)
    BY <2>2, <1>4, <1>6, <1>7 DEF ReadOK, KeepsBuffers
  <2>6. s.pcb.state # "syn_rcvd"
    BY <2>2, <1>7 DEF PcbOK, PcbOpen
  <2>7. s.pcb.end # "fin"
    BY <2>2, OpenIsMid
  <2>8. ~e.fin
    BY <2>2, <1>7 DEF EndOK
  <2>9. EndOK(u, f)
    BY <2>6, <2>7, <2>8, <1>5, <1>14 DEF EndOK
  <2>10. SystemOK(u, f)
    BY <2>3, <2>4, <2>5, <2>9, <1>3, <1>8, <1>9, <1>10, <1>11, <1>12, <1>13 DEF SystemOK
  <2>11. QED BY <2>1, <2>10
<1>15. CASE ~s.c.client_closed /\ ~unsent
  <2>1. client_free_socks(s) = client_free_client(u)
    BY <1>4, <1>15 DEF client_free_socks, u
  <2>2. HasPcb(s) /\ HasPcb(u)
    BY <1>2, <1>6, <1>15 DEF HasPcb
  <2>3. ~e.fin /\ ~s.c.aborted /\ ~s.pcb.refused
    BY <2>2, <1>7, <1>15 DEF EndOK, ClientOK, PcbOK
  <2>4. Mid(u, e)
    BY <2>2, <2>3, <1>1, <1>3, <1>4, <1>5, <1>8, <1>9, <1>10, <1>11, <1>12, <1>13 DEF Mid
  <2>5. u.c.rbuf = <<>>
    BY <1>4, <1>7, <1>15 DEF PendingOK, KeepsBuffers
  <2>6. \A t \in client_free_client(u) : Gone(t, u)
    BY <2>3, <1>3, <1>4, <1>6, <1>8, ClientFreed
  <2>7. ASSUME NEW t \in client_free_client(u) PROVE SystemOK(t, f)
    <3>1. Gone(t, u)
      BY <2>6
    <3>2. f.fin => HasSocks(u)
      BY <2>3
    <3>3. ~HasSocks(u) /\ u.c.rbuf = <<>> /\ (f.failed \/ f.read = f.answer)
      BY <2>5, <1>6, <1>15
    <3>4. QED BY <3>1, <3>2, <3>3, <2>4, GoneKeeps
  <2>8. QED BY <2>1, <2>7
<1>16. CASE s.c.client_closed
  <2> DEFINE t == client_dealloc(u)
  <2>1. client_free_socks(s) = {t}
    BY <1>4, <1>16 DEF client_free_socks, u
  <2>2. /\ t \in Systems /\ Beside(t, u) /\ t.c = NoClient /\ t.pcb = u.pcb /\ t.sk = u.sk
        /\ t.jobs = u.jobs /\ DeadOK(t)
    BY <1>3, <1>6, <1>8, DeallocFields
  <2> HIDE DEF t
  <2>3. /\ ~t.c.live /\ ~t.c.aborted /\ t.c.buf = <<>> /\ ~t.c.socks_up
        /\ t.c.rbuf = <<>> /\ t.c.pending = 0
    BY <2>2 DEF NoClient
  <2>4. ~HasPcb(t) /\ ~HasSocks(t) /\ ~HasPcb(s)
    BY <2>3, <1>16 DEF HasPcb, HasSocks
  <2>5. ClientOK(t)
    BY <2>2, <2>3 DEF ClientOK
  <2>6. PcbOK(t)
    BY <2>2, <2>4, <1>5, <1>7 DEF PcbOK
  <2>7. SkOK(t)
    BY <2>2, <2>4, <1>3 DEF SkOK
  <2>8. WndOK(t) /\ PendingOK(t) /\ ReadOK(t)
    <3>1. Len(t.c.buf) = 0
      BY <2>3
    <3>2. QED BY <2>2, <2>3, <2>4, <3>1, <1>10, SizesAssumption DEF WndOK, PendingOK, ReadOK
  <2>9. UpOK(t, f)
    BY <2>2, <2>3, <2>4, <1>11 DEF UpOK, Beside
  <2>10. DownOK(t, f)
    BY <2>2, <2>3, <2>4, <1>12 DEF DownOK, Beside
  <2>11. s.c.buf = <<>> => Len(t.up) = f.sent
    <3>1. ASSUME s.c.buf = <<>> PROVE Len(s.up) = f.sent
      <4>1. Len(s.up) + 0 = f.sent /\ Len(s.up) \in Nat
        BY <3>1, <1>1, <1>7 DEF UpOK
      <4>2. QED BY <4>1
    <3>2. QED BY <3>1, <2>2, <1>3 DEF Beside
  <2>12. t.pcb.end = s.pcb.end /\ t.pcb.state = s.pcb.state /\ t.pcb.wnd = s.pcb.wnd
         /\ t.pcb.unacked = s.pcb.unacked
    BY <2>2, <1>5
  <2>13. s.pcb.end = "fin" => f.fin
    BY <1>2, <1>7 DEF EndOK
  <2>14. EndOK(t, f)
    BY <2>3, <2>4, <2>11, <2>12, <2>13, <1>7, <1>16 DEF EndOK
  <2>15. ~t.wild
    BY <2>2, <1>13 DEF Beside
  <2>16. QED BY <2>1, <2>2, <2>5, <2>6, <2>7, <2>8, <2>9, <2>10, <2>14, <2>15 DEF SystemOK
<1>17. QED BY <1>2, <1>14, <1>15, <1>16
------------------------------------------------------------------------------
(* Jobs and runs of bytes *)

\* BPending_Set puts a job before the others.
LEMMA PushJobs ==
    /\ <<"connected">> \o <<>> = <<"connected">> /\ <<"control">> \o <<>> = <<"control">>
    /\ <<"send">> \o <<>> = <<"send">> /\ <<"recv">> \o <<>> = <<"recv">>
    /\ <<"send">> \o <<"recv">> = <<"send", "recv">>
    /\ <<"recv">> \o <<"send">> = <<"recv", "send">>
<1>1. ASSUME NEW x PROVE <<x>> \o <<>> = <<x>>
  <2>1. <<x>> \in Seq({x})
    OBVIOUS
  <2>2. QED BY <2>1, ConcatEmptySeq
<1>2. ASSUME NEW x, NEW y PROVE <<x>> \o <<y>> = <<x, y>>
  <2> DEFINE p == <<x>>
             q == <<y>>
             r == <<x, y>>
  <2>1. p \in Seq({x, y}) /\ q \in Seq({x, y}) /\ r \in Seq({x, y}) /\ Len(p) = 1 /\ Len(q) = 1
        /\ Len(r) = 2 /\ p[1] = x /\ q[1] = y /\ r[1] = x /\ r[2] = y
    OBVIOUS
  <2> HIDE DEF p, q, r
  <2>2. p \o q \in Seq({x, y}) /\ Len(p \o q) = 2 /\ (p \o q)[1] = x /\ (p \o q)[2] = y
    <3>1. /\ p \o q \in Seq({x, y}) /\ Len(p \o q) = Len(p) + Len(q)
          /\ \A i \in 1..(Len(p) + Len(q)) :
                 (p \o q)[i] = IF i <= Len(p) THEN p[i] ELSE q[i - Len(p)]
      BY <2>1, ConcatProperties
    <3>2. \A i \in 1..2 : (p \o q)[i] = IF i <= 1 THEN p[i] ELSE q[i - 1]
      BY <3>1, <2>1
    <3>3. 1 \in 1..2 /\ 2 \in 1..2 /\ 1 <= 1 /\ ~(2 <= 1) /\ 2 - 1 = 1
      OBVIOUS
    <3>4. (p \o q)[1] = p[1] /\ (p \o q)[2] = q[2 - 1]
      BY <3>2, <3>3
    <3>5. QED BY <3>1, <3>3, <3>4, <2>1
  <2>3. p \o q = r
    <3>1. \A i \in 1..2 : i = 1 \/ i = 2
      OBVIOUS
    <3>2. \A i \in 1..Len(p \o q) : (p \o q)[i] = r[i]
      BY <3>1, <2>1, <2>2
    <3>3. QED BY <3>2, <2>1, <2>2, SeqEqual
  <2>4. QED BY <2>3 DEF p, q, r
<1>3. QED BY <1>1, <1>2

\* And the first job runs next.
LEMMA PopJobs ==
    /\ Head(<<"connected">>) = "connected" /\ Tail(<<"connected">>) = <<>>
    /\ Head(<<"control">>) = "control" /\ Tail(<<"control">>) = <<>>
    /\ Head(<<"send">>) = "send" /\ Tail(<<"send">>) = <<>>
    /\ Head(<<"recv">>) = "recv" /\ Tail(<<"recv">>) = <<>>
    /\ Head(<<"send", "recv">>) = "send" /\ Tail(<<"send", "recv">>) = <<"recv">>
    /\ Head(<<"recv", "send">>) = "recv" /\ Tail(<<"recv", "send">>) = <<"send">>
  OBVIOUS

\* The jobs are told apart.
LEMMA JobsDiffer ==
    /\ <<>> # <<"connected">> /\ <<>> # <<"control">> /\ <<>> # <<"send">> /\ <<>> # <<"recv">>
    /\ <<>> # <<"send", "recv">> /\ <<>> # <<"recv", "send">>
    /\ <<"recv">> # <<"connected">> /\ <<"recv">> # <<"control">> /\ <<"recv">> # <<"send">>
    /\ <<"recv">> # <<"send", "recv">> /\ <<"recv">> # <<"recv", "send">>
    /\ <<"send">> # <<"connected">> /\ <<"send">> # <<"control">>
    /\ <<"send">> # <<"send", "recv">> /\ <<"send">> # <<"recv", "send">>
    /\ <<"connected">> # <<"control">> /\ <<"send", "recv">> # <<"recv", "send">>
    /\ <<"connected">> # <<"send", "recv">> /\ <<"connected">> # <<"recv", "send">>
    /\ <<"control">> # <<"send", "recv">> /\ <<"control">> # <<"recv", "send">>
  OBVIOUS

\* A run of bytes.
LEMMA RunSeq ==
    ASSUME NEW a \in Nat, NEW n \in Nat
    PROVE  /\ Run(a, n) \in Seq(Nat) /\ Len(Run(a, n)) = n
           /\ \A i \in 1..n : Run(a, n)[i] = a + i
           /\ Run(a, n) = <<>> <=> n = 0
<1>1. Run(a, n) \in [1..n -> Nat]
  BY DEF Run
<1>2. Run(a, n) \in Seq(Nat) /\ Len(Run(a, n)) = n
  BY <1>1, SeqDef, LenProperties
<1>3. QED BY <1>2, EmptySeq DEF Run

\* Sequences of numbers with the same elements are equal.
LEMMA SameNumbers ==
    ASSUME NEW p \in Seq(Nat), NEW q \in Seq(Nat), Len(p) = Len(q),
           \A i \in 1..Len(p) : p[i] = q[i]
    PROVE  p = q
  BY SeqEqual

\* Two adjacent runs.
LEMMA RunJoin ==
    ASSUME NEW a \in Nat, NEW m \in Nat, NEW n \in Nat
    PROVE  Run(a, m) \o Run(a + m, n) = Run(a, m + n)
<1> DEFINE p == Run(a, m)
           q == Run(a + m, n)
           r == Run(a, m + n)
<1>1. /\ p \in Seq(Nat) /\ Len(p) = m /\ \A i \in 1..m : p[i] = a + i
  BY RunSeq
<1>2. /\ q \in Seq(Nat) /\ Len(q) = n /\ \A i \in 1..n : q[i] = a + m + i
  <2> DEFINE b == a + m
  <2>1. b \in Nat
    OBVIOUS
  <2> HIDE DEF b
  <2>2. Run(b, n) \in Seq(Nat) /\ Len(Run(b, n)) = n /\ \A i \in 1..n : Run(b, n)[i] = b + i
    BY <2>1, RunSeq
  <2>3. QED BY <2>2 DEF b
<1>3. /\ r \in Seq(Nat) /\ Len(r) = m + n /\ \A i \in 1..(m + n) : r[i] = a + i
  <2> DEFINE k == m + n
  <2>1. k \in Nat
    OBVIOUS
  <2> HIDE DEF k
  <2>2. Run(a, k) \in Seq(Nat) /\ Len(Run(a, k)) = k /\ \A i \in 1..k : Run(a, k)[i] = a + i
    BY <2>1, RunSeq
  <2>3. QED BY <2>2 DEF k
<1> HIDE DEF p, q, r
<1>4. /\ p \o q \in Seq(Nat) /\ Len(p \o q) = m + n
      /\ \A i \in 1..(m + n) : (p \o q)[i] = IF i <= m THEN p[i] ELSE q[i - m]
  BY <1>1, <1>2, ConcatProperties
<1>5. ASSUME NEW i \in 1..(m + n) PROVE (p \o q)[i] = r[i]
  <2>1. CASE i <= m
    <3>1. i \in 1..m
      BY <2>1
    <3>2. QED BY <2>1, <3>1, <1>1, <1>3, <1>4
  <2>2. CASE i > m
    <3>1. i - m \in 1..n /\ a + m + (i - m) = a + i /\ ~(i <= m)
      BY <2>2
    <3>2. q[i - m] = a + i
      BY <3>1, <1>2
    <3>3. QED BY <3>1, <3>2, <1>3, <1>4
  <2>3. i <= m \/ i > m
    OBVIOUS
  <2>4. QED BY <2>1, <2>2, <2>3
<1>6. p \o q = r
  BY <1>3, <1>4, <1>5, SameNumbers
<1>7. QED BY <1>6 DEF p, q, r

CutsRun(a, n, x, y) == SubSeq(Run(a, n), x + 1, y) = Run(a + x, y - x)

\* A part of a run is a run.
LEMMA RunCuts ==
    ASSUME NEW a \in Nat, NEW n \in Nat, NEW x \in Nat, NEW y \in Nat, x <= y, y <= n
    PROVE  CutsRun(a, n, x, y)
<1> DEFINE p == Run(a, n)
           b == a + x
           k == y - x
           q == Run(b, k)
           d == x + 1
           r == SubSeq(p, d, y)
<1>1. b \in Nat /\ k \in Nat /\ d \in 1..(n + 1) /\ y \in 0..n /\ y - d + 1 = k /\ (d <= y + 1)
  OBVIOUS
<1>2. p \in Seq(Nat) /\ Len(p) = n /\ \A i \in 1..n : p[i] = a + i
  BY RunSeq
<1> HIDE DEF p, q, b, k, d
<1>3. q \in Seq(Nat) /\ Len(q) = k /\ \A i \in 1..k : q[i] = b + i
  BY <1>1, RunSeq DEF q
<1>4. r \in Seq(Nat) /\ Len(r) = k /\ \A i \in 1..k : r[i] = p[d + i - 1]
  <2>1. CASE d <= y
    <3>1. d \in 1..n /\ y \in 1..n
      BY <2>1, <1>1
    <3>2. /\ SubSeq(p, d, y) \in Seq(Nat)
          /\ Len(SubSeq(p, d, y)) = IF d <= y THEN y - d + 1 ELSE 0
          /\ \A i \in 1..(y - d + 1) : SubSeq(p, d, y)[i] = p[d + i - 1]
      BY <3>1, <1>2, SubSeqProperties
    <3>3. QED BY <3>2, <2>1, <1>1
  <2>2. CASE ~(d <= y)
    <3>1. k = 0
      BY <2>2, <1>1
    <3>2. r = <<>>
      BY <2>2, <1>1
    <3>3. QED BY <3>1, <3>2
  <2>3. QED BY <2>1, <2>2
<1>5. ASSUME NEW i \in 1..k PROVE r[i] = q[i]
  <2>1. d + i - 1 \in 1..n /\ a + (d + i - 1) = b + i
    BY <1>1 DEF d, b, k
  <2>2. QED BY <2>1, <1>2, <1>3, <1>4
<1> HIDE DEF r
<1>6. r = q
  BY <1>3, <1>4, <1>5, SameNumbers
<1>7. QED BY <1>6 DEF r, q, p, b, k, d, CutsRun

------------------------------------------------------------------------------
(* From the application to SOCKS *)

\* client_socks_send_handler_done after the socket took n bytes.
LEMMA WriteKeeps ==
    ASSUME NEW s, NEW e, SystemOK(s, e), s.sk.send = "busy", s.jobs \in {<<>>, <<"recv">>},
           NEW n \in 1..Len(s.c.buf)
    PROVE  \A t \in client_socks_send_handler_done(
                        [s EXCEPT !.up = @ \o SubSeq(s.c.buf, 1, n)], n) : SystemOK(t, e)
<1> DEFINE x == [s EXCEPT !.up = @ \o SubSeq(s.c.buf, 1, n)]
           y == [x EXCEPT !.sk.send = "ready", !.c.buf = SubSeq(x.c.buf, n + 1, Len(x.c.buf)),
                          !.pcb.wnd = IF x.c.client_closed THEN @ ELSE @ + n]
           z == client_send_to_socks(y)
           a == Len(s.up)
           m == Len(s.c.buf)
<1>1. /\ s \in Systems /\ s.c \in Clients /\ s.pcb \in Pcbs /\ s.sk \in Connections /\ e \in Envs
      /\ s.up \in Seq(Nat) /\ s.c.buf \in Seq(Nat) /\ a \in Nat /\ m \in Nat
  BY LenProperties DEF SystemOK, Systems, Clients
<1>2. /\ DeadOK(s) /\ ClientOK(s) /\ PcbOK(s) /\ SkOK(s) /\ WndOK(s) /\ PendingOK(s) /\ ReadOK(s)
      /\ UpOK(s, e) /\ DownOK(s, e) /\ EndOK(s, e) /\ ~s.wild
  BY DEF SystemOK
<1>3. HasSocks(s) /\ s.c.live /\ ~s.c.socks_closed /\ s.c.socks_up /\ s.sk.state = "up"
      /\ s.c.client_closed \in BOOLEAN
  BY <1>1, <1>2 DEF SkOK, HasSocks, Clients
<1>4. s.up = Run(0, a) /\ s.c.buf = Run(a, m) /\ a + m = e.sent /\ n \in Nat /\ n <= m /\ n >= 1
  <2>1. s.up = Run(0, Len(s.up))
    BY <1>2 DEF UpOK
  <2>2. s.c.buf = Run(Len(s.up), Len(s.c.buf)) /\ Len(s.up) + Len(s.c.buf) = e.sent
    BY <1>2, <1>3 DEF UpOK
  <2>3. n \in Nat /\ n <= m /\ n >= 1
    <3> HIDE DEF m
    <3>1. n \in 1..m
      BY DEF m
    <3>2. QED BY <3>1, <1>1
  <2>4. QED BY <2>1, <2>2, <2>3
<1> HIDE DEF a, m
<1>5. SubSeq(s.c.buf, 1, n) = Run(a, n) /\ SubSeq(s.c.buf, n + 1, m) = Run(a + n, m - n)
  <2> DEFINE o == 0
  <2>1. o \in Nat /\ o <= n /\ a + o = a /\ n - o = n /\ o + 1 = 1
    BY <1>1, <1>4
  <2> HIDE DEF o
  <2>2. SubSeq(Run(a, m), o + 1, n) = Run(a + o, n - o)
    <3>1. a \in Nat /\ m \in Nat /\ o \in Nat /\ n \in Nat /\ o <= n /\ n <= m
      BY <2>1, <1>1, <1>4
    <3>2. CutsRun(a, m, o, n)
      BY ONLY <3>1, RunCuts
    <3>3. QED BY <3>2 DEF CutsRun
  <2>3. m <= m
    BY <1>1
  <2>4. SubSeq(Run(a, m), n + 1, m) = Run(a + n, m - n)
    <3>1. CutsRun(a, m, n, m)
      BY <2>3, <1>1, <1>4, RunCuts
    <3>2. QED BY <3>1 DEF CutsRun
  <2>5. QED BY <2>1, <2>2, <2>4, <1>4
<1>6. s.up \o SubSeq(s.c.buf, 1, n) = Run(0, a + n)
  <2> DEFINE o == 0
  <2>1. o \in Nat /\ o + a = a
    BY <1>1
  <2> HIDE DEF o
  <2>2. Run(o, a) \o Run(o + a, n) = Run(o, a + n)
    BY <2>1, <1>1, <1>4, RunJoin
  <2>3. s.up = Run(o, a)
    BY <1>4 DEF o
  <2>4. s.up \o SubSeq(s.c.buf, 1, n) = Run(o, a + n)
    BY <2>1, <2>2, <2>3, <1>5
  <2>5. QED BY <2>4 DEF o
<1> DEFINE b == a + n
           k == m - n
<1>7. b \in Nat /\ k \in Nat /\ b + k = e.sent
  BY <1>1, <1>4
<1> HIDE DEF b, k
<1>8. /\ Run(0, b) \in Seq(Nat) /\ Len(Run(0, b)) = b
      /\ Run(b, k) \in Seq(Nat) /\ Len(Run(b, k)) = k /\ (Run(b, k) = <<>> <=> k = 0)
  BY <1>7, RunSeq
<1>9. /\ x.up = Run(0, b) /\ x.c = s.c /\ x.pcb = s.pcb /\ x.sk = s.sk /\ x.jobs = s.jobs
      /\ x.call = s.call /\ x.wild = s.wild /\ x.down = s.down /\ x \in Systems
  BY <1>1, <1>6, <1>8 DEF Systems, b
<1> HIDE DEF x
<1>10. SubSeq(x.c.buf, n + 1, Len(x.c.buf)) = Run(b, k)
  BY <1>5, <1>9 DEF b, k, m
<1>11. y = [x EXCEPT !.sk.send = "ready", !.c.buf = Run(b, k),
                     !.pcb.wnd = IF s.c.client_closed THEN s.pcb.wnd ELSE s.pcb.wnd + n]
  BY <1>9, <1>10
<1> HIDE DEF y
<1>12. /\ y \in Systems /\ y.up = Run(0, b) /\ y.down = s.down /\ y.wild = s.wild /\ y.call = s.call
       /\ y.jobs = s.jobs
       /\ y.c = [s.c EXCEPT !.buf = Run(b, k)] /\ y.sk = [s.sk EXCEPT !.send = "ready"]
       /\ y.pcb = [s.pcb EXCEPT !.wnd = IF s.c.client_closed THEN s.pcb.wnd ELSE s.pcb.wnd + n]
  <2>1. (IF s.c.client_closed THEN s.pcb.wnd ELSE s.pcb.wnd + n) \in Nat
    BY <1>1, <1>4 DEF Pcbs
  <2> DEFINE v == IF s.c.client_closed THEN s.pcb.wnd ELSE s.pcb.wnd + n
  <2>2. v \in Nat /\ y = [x EXCEPT !.sk.send = "ready", !.c.buf = Run(b, k), !.pcb.wnd = v]
    BY <2>1, <1>11
  <2> HIDE DEF v
  <2>3. /\ y \in Systems /\ y.up = x.up /\ y.down = x.down /\ y.wild = x.wild /\ y.call = x.call
        /\ y.jobs = x.jobs /\ y.c = [x.c EXCEPT !.buf = Run(b, k)]
        /\ y.sk = [x.sk EXCEPT !.send = "ready"] /\ y.pcb = [x.pcb EXCEPT !.wnd = v]
    BY <2>2, <1>8, <1>9 DEF Systems, Clients, Pcbs, Connections
  <2>4. QED BY <2>3, <1>9 DEF v
<1>13. /\ y.c.live = s.c.live /\ y.c.aborted = s.c.aborted /\ y.c.dead = s.c.dead
       /\ y.c.client_closed = s.c.client_closed /\ y.c.buf = Run(b, k)
       /\ y.c.socks_up = s.c.socks_up /\ y.c.socks_closed = s.c.socks_closed
       /\ y.c.rbuf = s.c.rbuf /\ y.c.rsent = s.c.rsent /\ y.c.waiting = s.c.waiting
       /\ y.c.pending = s.c.pending
  BY <1>1, <1>12 DEF Clients
<1>14. /\ y.sk.state = s.sk.state /\ y.sk.send = "ready" /\ y.sk.recv = s.sk.recv
  BY <1>1, <1>12 DEF Connections
<1>15. /\ y.pcb.state = s.pcb.state /\ y.pcb.unacked = s.pcb.unacked /\ y.pcb.end = s.pcb.end
       /\ y.pcb.recv = s.pcb.recv /\ y.pcb.sent = s.pcb.sent /\ y.pcb.err = s.pcb.err
       /\ y.pcb.refused = s.pcb.refused
       /\ y.pcb.wnd = IF s.c.client_closed THEN s.pcb.wnd ELSE s.pcb.wnd + n
  BY <1>1, <1>12 DEF Pcbs
<1>16. (HasPcb(y) <=> HasPcb(s)) /\ HasSocks(y)
  BY <1>3, <1>13 DEF HasPcb, HasSocks
<1>17. WndOK(y)
  <2>1. s.pcb.wnd \in Nat /\ s.pcb.wnd <= Wnd /\ m <= Wnd /\ (HasPcb(s) => s.pcb.wnd + m = Wnd)
    BY <1>1, <1>2, <1>3 DEF WndOK, Pcbs, m
  <2>2. ~s.c.client_closed <=> HasPcb(s)
    BY <1>3 DEF HasPcb
  <2>3. Len(y.c.buf) = k
    BY <1>8, <1>13
  <2>4. k = m - n
    BY DEF k
  <2>5. y.pcb.wnd = IF HasPcb(s) THEN s.pcb.wnd + n ELSE s.pcb.wnd
    BY <2>2, <1>3, <1>15
  <2>6. k <= Wnd /\ y.pcb.wnd <= Wnd /\ (HasPcb(s) => y.pcb.wnd + k = Wnd)
    BY <2>1, <2>4, <2>5, <1>1, <1>4, SizesAssumption
  <2>7. QED BY <2>3, <2>6, <1>16 DEF WndOK
<1>18. UpOK(y, e)
  <2>1. Len(y.up) = b /\ Len(y.c.buf) = k /\ y.up = Run(0, b) /\ y.c.buf = Run(b, k)
    BY <1>8, <1>12, <1>13
  <2>2. b <= e.sent /\ b + k <= e.sent /\ b + k = e.sent
    BY <1>7
  <2>3. QED BY <2>1, <2>2 DEF UpOK
<1>19. /\ DeadOK(y) /\ ClientOK(y) /\ PcbOK(y) /\ PendingOK(y) /\ ReadOK(y) /\ DownOK(y, e) /\ ~y.wild
  <2>1. DeadOK(y)
    BY <1>2, <1>12, <1>13 DEF DeadOK
  <2>2. ClientOK(y)
    BY <1>2, <1>3, <1>13 DEF ClientOK
  <2>3. PcbOK(y)
    BY <1>2, <1>3, <1>13, <1>15, <1>16 DEF PcbOK
  <2>4. PendingOK(y) /\ ReadOK(y)
    BY <1>2, <1>3, <1>13, <1>14, <1>15, <1>16 DEF PendingOK, ReadOK
  <2>5. DownOK(y, e) /\ ~y.wild
    BY <1>2, <1>12, <1>13, <1>16 DEF DownOK
  <2>6. QED BY <2>1, <2>2, <2>3, <2>4, <2>5
<1>20. EndOK(y, e)
  <2>1. s.pcb.state # "syn_rcvd"
    <3>1. ASSUME s.pcb.state = "syn_rcvd" PROVE FALSE
      <4>1. e.sent = 0
        BY <3>1, <1>2 DEF EndOK
      <4>2. QED BY <4>1, <1>1, <1>4
    <3>2. QED BY <3>1
  <2>2. QED BY <2>1, <1>2, <1>3, <1>13, <1>15, <1>16 DEF EndOK
<1>21. CASE k = 0
  <2>1. y.c.buf = <<>>
    BY <1>8, <1>13, <1>21
  <2>2. SkOK(y)
    <3>1. y.jobs \in {<<>>, <<"recv">>}
      BY <1>12
    <3>2. y.jobs \notin {<<"send">>, <<"send", "recv">>, <<"recv", "send">>, <<"connected">>, <<"control">>}
      BY <3>1, JobsDiffer
    <3>3. y.jobs = <<"recv">> => s.sk.recv = "busy"
      BY <1>2, <1>12 DEF SkOK
    <3>4. s.sk.recv = "busy" => s.c.socks_up
      BY <1>3
    <3>5. QED BY <3>1, <3>2, <3>3, <3>4, <2>1, <1>3, <1>13, <1>14, <1>16 DEF SkOK
  <2>3. SystemOK(y, e)
    BY <2>2, <1>1, <1>12, <1>17, <1>18, <1>19, <1>20 DEF SystemOK
  <2>4. client_socks_send_handler_done(x, n) = IF y.c.client_closed THEN client_free_socks(y) ELSE {y}
    BY <2>1 DEF client_socks_send_handler_done, y
  <2>5. CASE y.c.client_closed
    <3>1. \A t \in client_free_socks(y) : SystemOK(t, e)
      BY <2>1, <2>3, <2>5, <1>1, <1>16, FreeSocksKeeps
    <3>2. QED BY <2>4, <2>5, <3>1 DEF x
  <2>6. CASE ~y.c.client_closed
    BY <2>3, <2>4, <2>6 DEF x
  <2>7. QED BY <2>5, <2>6
<1>22. CASE k # 0
  <2>1. y.c.buf # <<>>
    BY <1>8, <1>13, <1>22
  <2>2. client_socks_send_handler_done(x, n) = {z}
    BY <2>1 DEF client_socks_send_handler_done, y
  <2>3. /\ z \in Systems /\ z.up = y.up /\ z.down = y.down /\ z.wild = y.wild /\ z.call = y.call
        /\ z.jobs = <<"send">> \o y.jobs /\ z.c = y.c /\ z.pcb = y.pcb
        /\ z.sk.send = "busy" /\ z.sk.recv = y.sk.recv /\ z.sk.state = y.sk.state
        /\ z.jobs \in {<<"send">>, <<"send", "recv">>} /\ (z.jobs = <<"send", "recv">> => y.jobs = <<"recv">>)
    <3>1. <<"send">> \o y.jobs \in {<<"send">>, <<"send", "recv">>}
          /\ (<<"send">> \o y.jobs = <<"send", "recv">> => y.jobs = <<"recv">>)
      <4>1. CASE y.jobs = <<>>
        BY <4>1, PushJobs, JobsDiffer
      <4>2. CASE y.jobs = <<"recv">>
        BY <4>2, PushJobs
      <4>3. QED BY <4>1, <4>2, <1>12
    <3>2. <<"send">> \o y.jobs \in JobLists
      BY <3>1 DEF JobLists
    <3> DEFINE l == <<"send">> \o y.jobs
    <3>3. z = [y EXCEPT !.sk.send = "busy", !.jobs = l]
      BY <1>12 DEF z, client_send_to_socks, Push, Systems, Connections
    <3>4. l \in JobLists
      BY <3>2
    <3> HIDE DEF l, z
    <3>5. /\ z \in Systems /\ z.up = y.up /\ z.down = y.down /\ z.wild = y.wild /\ z.call = y.call
          /\ z.jobs = l /\ z.c = y.c /\ z.pcb = y.pcb
          /\ z.sk.send = "busy" /\ z.sk.recv = y.sk.recv /\ z.sk.state = y.sk.state
      BY <3>3, <3>4, <1>12 DEF Systems, Connections
    <3>6. QED BY <3>1, <3>5 DEF l
  <2> HIDE DEF z
  <2>4. (HasPcb(z) <=> HasPcb(y)) /\ HasSocks(z)
    BY <2>3, <1>16 DEF HasPcb, HasSocks
  <2>5. SkOK(z)
    BY <2>1, <2>3, <2>4, <1>2, <1>3, <1>12, <1>13, <1>14, JobsDiffer DEF SkOK
  <2>6. DeadOK(z) /\ ClientOK(z) /\ PcbOK(z) /\ WndOK(z) /\ PendingOK(z) /\ ReadOK(z) /\ ~z.wild
    BY <2>3, <2>4, <1>16, <1>17, <1>19 DEF DeadOK, ClientOK, PcbOK, WndOK, PendingOK, ReadOK
  <2>7. UpOK(z, e) /\ DownOK(z, e) /\ EndOK(z, e)
    BY <2>3, <2>4, <1>16, <1>18, <1>19, <1>20 DEF UpOK, DownOK, EndOK
  <2>8. QED BY <2>2, <2>3, <2>5, <2>6, <2>7, <1>1 DEF SystemOK, x
<1>23. QED BY <1>21, <1>22
------------------------------------------------------------------------------
(* Steps that many handlers share *)

\* What starting an operation of SOCKS leaves alone.
Started(t, s) ==
    /\ t \in Systems /\ Beside(t, s) /\ t.c = s.c /\ t.pcb = s.pcb /\ t.call = s.call
    /\ t.sk.state = s.sk.state

\* client_send_to_socks beside a read, if any.
LEMMA SendStarted ==
    ASSUME NEW s \in Systems, s.jobs \in {<<>>, <<"recv">>}
    PROVE  LET t == client_send_to_socks(s)
           IN  /\ Started(t, s) /\ t.sk.send = "busy" /\ t.sk.recv = s.sk.recv
               /\ t.jobs \in {<<"send">>, <<"send", "recv">>}
               /\ t.jobs = <<"send">> <=> s.jobs = <<>>
<1> DEFINE l == <<"send">> \o s.jobs
           t == client_send_to_socks(s)
<1>1. l \in {<<"send">>, <<"send", "recv">>} /\ (l = <<"send">> <=> s.jobs = <<>>)
  <2>1. CASE s.jobs = <<>>
    BY <2>1, PushJobs, JobsDiffer
  <2>2. CASE s.jobs = <<"recv">>
    BY <2>2, PushJobs, JobsDiffer
  <2>3. QED BY <2>1, <2>2
<1>2. l \in JobLists
  BY <1>1 DEF JobLists
<1>3. t = [s EXCEPT !.sk.send = "busy", !.jobs = l]
  BY DEF client_send_to_socks, Push, Systems, Connections
<1> HIDE DEF l, t
<1>4. Started(t, s) /\ t.sk.send = "busy" /\ t.sk.recv = s.sk.recv /\ t.jobs = l
  BY <1>2, <1>3 DEF Started, Beside, Systems, Connections
<1>5. QED BY <1>1, <1>4 DEF t

\* client_socks_recv_initiate beside a write, if any.
LEMMA ReadStarted ==
    ASSUME NEW s \in Systems, s.jobs \in {<<>>, <<"send">>}
    PROVE  LET t == client_socks_recv_initiate(s)
           IN  /\ Started(t, s) /\ t.sk.recv = "busy" /\ t.sk.send = s.sk.send
               /\ t.jobs \in {<<"recv">>, <<"recv", "send">>}
               /\ t.jobs = <<"recv">> <=> s.jobs = <<>>
<1> DEFINE l == <<"recv">> \o s.jobs
           t == client_socks_recv_initiate(s)
<1>1. l \in {<<"recv">>, <<"recv", "send">>} /\ (l = <<"recv">> <=> s.jobs = <<>>)
  <2>1. CASE s.jobs = <<>>
    BY <2>1, PushJobs, JobsDiffer
  <2>2. CASE s.jobs = <<"send">>
    BY <2>2, PushJobs, JobsDiffer
  <2>3. QED BY <2>1, <2>2
<1>2. l \in JobLists
  BY <1>1 DEF JobLists
<1>3. t = [s EXCEPT !.sk.recv = "busy", !.jobs = l]
  BY DEF client_socks_recv_initiate, Push, Systems, Connections
<1> HIDE DEF l, t
<1>4. Started(t, s) /\ t.sk.recv = "busy" /\ t.sk.send = s.sk.send /\ t.jobs = l
  BY <1>2, <1>3 DEF Started, Beside, Systems, Connections
<1>5. QED BY <1>1, <1>4 DEF t

\* DEAD_ENTER.
LEMMA EnterFields ==
    ASSUME NEW s \in Systems, NEW fn \in {"accept", "recv", "sent"}, ~s.c.aborted
    PROVE  LET t == Enter(s, fn)
           IN  /\ t \in Systems /\ Beside(t, s) /\ t.c = [s.c EXCEPT !.dead = "frame"]
               /\ t.pcb = s.pcb /\ t.sk = s.sk /\ t.jobs = s.jobs
               /\ t.call.fn = fn /\ DeadOK(t) /\ t.c.dead = "frame"
               /\ KeepsBuffers(t, s) /\ t.c.client_closed = s.c.client_closed
               /\ t.c.socks_closed = s.c.socks_closed /\ t.c.aborted = s.c.aborted
<1> DEFINE r == [NoCall EXCEPT !.fn = fn]
           t == Enter(s, fn)
<1>1. r \in Calls /\ r.fn = fn /\ r.killed = 0 /\ r.abrt = FALSE
  <2>1. 0 \in -1..1
    OBVIOUS
  <2>2. NoCall \in Calls /\ NoCall.killed = 0 /\ NoCall.abrt = FALSE
    BY <2>1 DEF NoCall, Calls
  <2>3. QED BY <2>2 DEF Calls
<1> HIDE DEF r
<1>2. /\ t \in Systems /\ Beside(t, s) /\ t.c = [s.c EXCEPT !.dead = "frame"] /\ t.call = r
      /\ t.pcb = s.pcb /\ t.sk = s.sk /\ t.jobs = s.jobs
  BY <1>1 DEF Enter, Systems, Clients, Beside, r
<1>3. s.c \in Clients
  BY DEF Systems
<1> HIDE DEF t
<1>4. /\ t.c.dead = "frame" /\ KeepsBuffers(t, s) /\ t.c.client_closed = s.c.client_closed
      /\ t.c.socks_closed = s.c.socks_closed /\ t.c.aborted = s.c.aborted
  BY <1>2, <1>3 DEF Clients, KeepsBuffers
<1>5. DeadOK(t)
  BY <1>1, <1>2, <1>4 DEF DeadOK
<1>6. QED BY <1>1, <1>2, <1>4, <1>5 DEF t

\* The next job.
LEMMA PopKeeps ==
    ASSUME NEW s, NEW e, SystemOK(s, e), s.jobs # <<>>
    PROVE  /\ SystemOK(Pop(s), e) /\ HasSocks(Pop(s))
           /\ Head(s.jobs) \in {"connected", "control", "send", "recv"}
           /\ Head(s.jobs) = "connected" =>
                  Pop(s).jobs = <<>> /\ Pop(s).sk.state = "connecting"
           /\ Head(s.jobs) = "control" => Pop(s).jobs = <<>> /\ Pop(s).sk.state \in Steps
           /\ Head(s.jobs) = "send" => Pop(s).jobs \in {<<>>, <<"recv">>} /\ Pop(s).sk.send = "busy"
           /\ Head(s.jobs) = "recv" => Pop(s).jobs \in {<<>>, <<"send">>} /\ Pop(s).sk.recv = "busy"
<1> DEFINE t == Pop(s)
           l == Tail(s.jobs)
<1>1. s \in Systems /\ s.jobs \in JobLists /\ SkOK(s)
  BY DEF SystemOK, Systems
<1>2. /\ Head(s.jobs) \in {"connected", "control", "send", "recv"} /\ l \in {<<>>, <<"send">>, <<"recv">>}
      /\ Head(s.jobs) = "connected" => l = <<>> /\ s.jobs = <<"connected">>
      /\ Head(s.jobs) = "control" => l = <<>> /\ s.jobs = <<"control">>
      /\ Head(s.jobs) = "send" => l \in {<<>>, <<"recv">>} /\ s.jobs \in {<<"send">>, <<"send", "recv">>}
      /\ Head(s.jobs) = "recv" => l \in {<<>>, <<"send">>} /\ s.jobs \in {<<"recv">>, <<"recv", "send">>}
      /\ l = <<"send">> => s.jobs = <<"recv", "send">>
      /\ l = <<"recv">> => s.jobs = <<"send", "recv">>
  <2>1. CASE s.jobs = <<"connected">>
    BY <2>1, PopJobs, JobsDiffer
  <2>2. CASE s.jobs = <<"control">>
    BY <2>2, PopJobs, JobsDiffer
  <2>3. CASE s.jobs = <<"send">>
    BY <2>3, PopJobs, JobsDiffer
  <2>4. CASE s.jobs = <<"recv">>
    BY <2>4, PopJobs, JobsDiffer
  <2>5. CASE s.jobs = <<"send", "recv">>
    BY <2>5, PopJobs, JobsDiffer
  <2>6. CASE s.jobs = <<"recv", "send">>
    BY <2>6, PopJobs, JobsDiffer
  <2>7. QED BY <2>1, <2>2, <2>3, <2>4, <2>5, <2>6, <1>1 DEF JobLists
<1>3. l \in JobLists
  BY <1>2 DEF JobLists
<1>4. t = [s EXCEPT !.jobs = l]
  BY DEF Pop
<1> HIDE DEF l, t
<1>5. /\ t \in Systems /\ t.c = s.c /\ t.pcb = s.pcb /\ t.sk = s.sk /\ t.call = s.call /\ t.jobs = l
      /\ t.wild = s.wild /\ t.up = s.up /\ t.down = s.down
  BY <1>1, <1>3, <1>4 DEF Systems
<1>6. HasSocks(s)
  BY <1>1 DEF SkOK
<1>7. (HasPcb(t) <=> HasPcb(s)) /\ HasSocks(t)
  BY <1>5, <1>6 DEF HasPcb, HasSocks
<1>8. SkOK(t)
  <2>1. /\ t.jobs \notin {<<"connected">>, <<"control">>, <<"send", "recv">>, <<"recv", "send">>}
    BY <1>2, <1>5, JobsDiffer
  <2>2. t.jobs = <<"send">> => s.sk.send = "busy"
    BY <1>1, <1>2, <1>5 DEF SkOK
  <2>3. t.jobs = <<"recv">> => s.sk.recv = "busy"
    BY <1>1, <1>2, <1>5 DEF SkOK
  <2>4. QED BY <2>1, <2>2, <2>3, <1>1, <1>5, <1>6, <1>7 DEF SkOK
<1>9. /\ DeadOK(t) /\ ClientOK(t) /\ PcbOK(t) /\ WndOK(t) /\ PendingOK(t) /\ ReadOK(t)
  BY <1>5, <1>6, <1>7 DEF SystemOK, DeadOK, ClientOK, PcbOK, WndOK, PendingOK, ReadOK
<1>10. UpOK(t, e) /\ DownOK(t, e) /\ EndOK(t, e)
  BY <1>5, <1>6, <1>7 DEF SystemOK, UpOK, DownOK, EndOK
<1>11. SystemOK(t, e)
  BY <1>5, <1>8, <1>9, <1>10 DEF SystemOK
<1>12. Head(s.jobs) = "connected" => s.sk.state = "connecting"
  BY <1>1, <1>2 DEF SkOK
<1>13. Head(s.jobs) = "control" => s.sk.state \in Steps
  BY <1>1, <1>2 DEF SkOK
<1>14. Head(s.jobs) = "send" => s.sk.send = "busy"
  BY <1>1, <1>2 DEF SkOK
<1>15. Head(s.jobs) = "recv" => s.sk.recv = "busy"
  BY <1>1, <1>2 DEF SkOK
<1>16. QED BY <1>2, <1>5, <1>7, <1>11, <1>12, <1>13, <1>14, <1>15 DEF t

\* The lesser of two numbers.
LEMMA MinPair ==
    ASSUME NEW a \in Int, NEW b \in Int
    PROVE  Min({a, b}) \in {a, b} /\ Min({a, b}) <= a /\ Min({a, b}) <= b
<1>1. \E x \in {a, b} : \A y \in {a, b} : x <= y
  <2>1. a <= b \/ b <= a
    OBVIOUS
  <2>2. QED BY <2>1
<1>2. LET x == CHOOSE x \in {a, b} : \A y \in {a, b} : x <= y
      IN  x \in {a, b} /\ \A y \in {a, b} : x <= y
  BY <1>1
<1>3. QED BY <1>2 DEF Min
------------------------------------------------------------------------------
(* From SOCKS to the application *)

\* A client with data to queue: the connection is not being read meanwhile.
Sending(s, e) ==
    /\ Mid(s, e) /\ ClientOK(s) /\ PcbOK(s) /\ EndOK(s, e) /\ s.c.socks_up
    /\ s.c.rbuf # <<>> /\ s.c.rsent <= Len(s.c.rbuf)
    /\ s.sk.recv = "ready" /\ s.jobs \in {<<>>, <<"send">>}

\* tcp_write with room for n bytes.
LEMMA QueuedKeeps ==
    ASSUME NEW s, NEW e, Sending(s, e), NEW n \in Nat, n <= Len(s.c.rbuf) - s.c.rsent,
           n <= SndBuf - s.pcb.unacked
    PROVE  Sending(Queued(s, n), e)
<1> DEFINE t == Queued(s, n)
           d == Len(s.down)
           m == Len(s.c.rbuf)
           r == s.c.rsent
           a == d - r
           b == r + n
<1>1. /\ s \in Systems /\ s.c \in Clients /\ s.pcb \in Pcbs /\ s.sk \in Connections /\ e \in Envs
      /\ s.down \in Seq(Nat) /\ s.c.rbuf \in Seq(Nat) /\ d \in Nat /\ m \in Nat /\ r \in Nat
      /\ s.pcb.unacked \in Nat /\ s.c.pending \in Nat /\ e.read \in Nat
  BY LenProperties, SizesAssumption, SMTT(30) DEF Sending, Mid, Systems, Clients, Pcbs, Envs
<1>2. s.c.live /\ ~s.c.client_closed /\ ~s.c.aborted
  BY DEF Sending, Mid, HasPcb
<1>3. s.down = Run(0, d) /\ d <= e.read /\ e.read <= e.answer
  BY DEF Sending, Mid, DownOK
<1>4. r <= m /\ m <= RecvBuf /\ r <= d /\ s.c.rbuf = Run(a, m) /\ a + m = e.read
  BY <1>2 DEF Sending, Mid, DownOK
<1> HIDE DEF d, m, r
<1>5. a \in Nat /\ b \in Nat /\ b <= m /\ r <= b /\ a + r = d /\ b - r = n /\ b <= d + n /\ d + n - b = a
      /\ d + n <= e.read /\ d + n \in Nat /\ n <= m - r
  <2>1. n <= m - r
    BY DEF m, r
  <2>2. QED BY <2>1, <1>1, <1>4
<1> HIDE DEF a
<1>6. SubSeq(s.c.rbuf, r + 1, b) = Run(d, n)
  <2> HIDE DEF b
  <2>1. SubSeq(Run(a, m), r + 1, b) = Run(a + r, b - r)
    <3>1. a \in Nat /\ m \in Nat /\ r \in Nat /\ b \in Nat /\ r <= b /\ b <= m
      BY <1>1, <1>5
    <3> HIDE DEF t
    <3>2. CutsRun(a, m, r, b)
      BY ONLY <3>1, RunCuts
    <3>3. QED BY <3>2 DEF CutsRun
  <2>2. QED BY <2>1, <1>4, <1>5
<1>7. s.down \o SubSeq(s.c.rbuf, r + 1, b) = Run(0, d + n)
  <2> DEFINE o == 0
  <2>1. o \in Nat /\ o + d = d
    BY <1>1
  <2> HIDE DEF o, b
  <2>2. Run(o, d) \o Run(o + d, n) = Run(o, d + n)
    <3>1. o \in Nat /\ d \in Nat /\ n \in Nat
      BY <2>1, <1>1
    <3>2. QED BY ONLY <3>1, RunJoin
  <2>3. s.down = Run(o, d)
    BY <1>3 DEF o
  <2>4. s.down \o SubSeq(s.c.rbuf, r + 1, b) = Run(o, d + n)
    BY <2>1, <2>2, <2>3, <1>6
  <2>5. QED BY <2>4 DEF o
<1> DEFINE k == d + n
           w == Run(0, k)
<1>8. w \in Seq(Nat) /\ Len(w) = k
  <2> DEFINE o == 0
  <2>1. k \in Nat /\ o \in Nat
    BY <1>5
  <2> HIDE DEF o, k
  <2>2. Run(o, k) \in Seq(Nat) /\ Len(Run(o, k)) = k
    BY ONLY <2>1, RunSeq
  <2>3. QED BY <2>2 DEF o
<1> DEFINE p == s.c.pending + n
           q == s.pcb.unacked + n
<1>9. p \in Nat /\ q \in Nat /\ q <= SndBuf /\ p = q /\ p >= n
  <2>1. s.c.pending = s.pcb.unacked
    BY DEF Sending, Mid, PendingOK
  <2>2. QED BY <2>1, <1>1, SizesAssumption
<1>10. t = [s EXCEPT !.c.rsent = b, !.c.pending = p, !.pcb.unacked = q, !.down = w]
  <2>1. s.down \o SubSeq(s.c.rbuf, s.c.rsent + 1, s.c.rsent + n) = w
    BY <1>7 DEF r
  <2>2. QED BY <2>1, <1>1 DEF Queued, Systems, Clients, Pcbs, r
<1> HIDE DEF w, p, q, t, b
<1>11. /\ t \in Systems /\ t.c = [s.c EXCEPT !.rsent = b, !.pending = p]
       /\ t.pcb = [s.pcb EXCEPT !.unacked = q] /\ t.sk = s.sk /\ t.jobs = s.jobs /\ t.call = s.call
       /\ t.wild = s.wild /\ t.up = s.up /\ t.down = w
  BY <1>1, <1>5, <1>8, <1>9, <1>10 DEF Systems, Clients, Pcbs
<1>12. /\ t.c.live = s.c.live /\ t.c.aborted = s.c.aborted /\ t.c.dead = s.c.dead
       /\ t.c.client_closed = s.c.client_closed /\ t.c.buf = s.c.buf
       /\ t.c.socks_up = s.c.socks_up /\ t.c.socks_closed = s.c.socks_closed
       /\ t.c.rbuf = s.c.rbuf /\ t.c.rsent = b /\ t.c.waiting = s.c.waiting /\ t.c.pending = p
  BY <1>1, <1>11 DEF Clients
<1>13. /\ t.pcb.state = s.pcb.state /\ t.pcb.unacked = q /\ t.pcb.end = s.pcb.end
       /\ t.pcb.recv = s.pcb.recv /\ t.pcb.sent = s.pcb.sent /\ t.pcb.err = s.pcb.err
       /\ t.pcb.refused = s.pcb.refused /\ t.pcb.wnd = s.pcb.wnd
  BY <1>1, <1>11 DEF Pcbs
<1>14. HasPcb(t) /\ HasPcb(s) /\ (HasSocks(t) <=> HasSocks(s))
  BY <1>2, <1>12 DEF HasPcb, HasSocks
<1>15. DownOK(t, e)
  <2>1. t.down = Run(0, Len(t.down)) /\ Len(t.down) = k
    BY <1>8, <1>11 DEF w
  <2>2. Len(t.c.rbuf) = m /\ t.c.rbuf = Run(a, m) /\ t.c.rsent = b
    BY <1>4, <1>12 DEF m
  <2>3. k <= e.read /\ b <= m /\ m <= RecvBuf /\ b <= k /\ k - b = a /\ a + m <= e.read /\ a + m = e.read
    BY <1>1, <1>4, <1>5
  <2> HIDE DEF k
  <2>4. QED BY <2>1, <2>2, <2>3, <1>3 DEF DownOK
<1>16. DeadOK(t)
  BY <1>11, <1>12 DEF Sending, Mid, DeadOK
<1>17. ClientOK(t) /\ PcbOK(t)
  <2>1. ClientOK(s) /\ PcbOK(s)
    BY DEF Sending
  <2>2. ClientOK(t)
    BY <2>1, <1>2, <1>12 DEF ClientOK
  <2>3. PcbOK(t)
    BY <2>1, <1>12, <1>13, <1>14 DEF PcbOK
  <2>4. QED BY <2>2, <2>3
<1>18. SkOK(t)
  BY <1>11, <1>12, <1>14 DEF Sending, Mid, SkOK
<1>19. WndOK(t)
  BY <1>12, <1>13, <1>14 DEF Sending, Mid, WndOK
<1>20. PendingOK(t)
  BY <1>9, <1>12, <1>13, <1>14 DEF Sending, PendingOK
<1>21. UpOK(t, e)
  BY <1>11, <1>12, <1>14 DEF Sending, Mid, UpOK
<1>22. EndOK(t, e)
  <2>1. t.pcb.state # "syn_rcvd"
    BY <1>14, <1>17 DEF PcbOK, PcbOpen
  <2>2. ~e.fin /\ s.pcb.end # "fin"
    BY <1>2 DEF Sending, Mid, EndOK
  <2>3. s.c.live /\ ~HasSocks(s) => e.failed \/ e.read = e.answer
    BY DEF Sending, EndOK
  <2>4. QED BY <2>1, <2>2, <2>3, <1>12, <1>13, <1>14 DEF EndOK
<1>23. Mid(t, e)
  BY <1>1, <1>2, <1>11, <1>12, <1>13, <1>14, <1>15, <1>16, <1>18, <1>19, <1>20, <1>21 DEF Mid, Sending
<1>24. t.c.socks_up /\ t.c.rbuf # <<>> /\ t.c.rsent <= Len(t.c.rbuf)
       /\ t.sk.recv = "ready" /\ t.jobs \in {<<>>, <<"send">>}
  <2>1. t.c.rsent <= Len(t.c.rbuf)
    BY <1>5, <1>12 DEF m
  <2>2. QED BY <2>1, <1>11, <1>12 DEF Sending
<1>25. QED BY <1>17, <1>22, <1>23, <1>24 DEF Sending, t

\* An abort while data is queued.
LEMMA AbortKeeps ==
    ASSUME NEW s, NEW e, Mid(s, e)
    PROVE  SystemOK(client_abort_client(s), e) /\ ReadOn(client_abort_client(s)) = client_abort_client(s)
<1> DEFINE t == client_abort_client(s)
<1>1. s \in Systems /\ s.c.live /\ ~s.c.aborted /\ DeadOK(s) /\ e \in Envs /\ ~e.fin
  BY DEF Mid, HasPcb
<1>2. Gone(t, s) /\ t.pcb.end = "rst"
  BY <1>1, ClientFreed
<1> HIDE DEF t
<1>3. SystemOK(t, e)
  BY <1>1, <1>2, GoneKeeps
<1>4. ~t.c.live \/ t.c.client_closed
  <2>1. CASE s.c.buf # <<>> /\ ~s.c.socks_closed
    BY <2>1, <1>2 DEF Gone
  <2>2. CASE ~(s.c.buf # <<>> /\ ~s.c.socks_closed)
    BY <2>2, <1>2 DEF Gone, NoClient
  <2>3. QED BY <2>1, <2>2
<1>5. ReadOn(t) = t
  BY <1>4 DEF ReadOn
<1>6. QED BY <1>3, <1>5 DEF t

\* client_socks_recv_send_out after tcp_write: the rest waits for an
\* acknowledgement, or the next data is read.
LEMMA SentOutKeeps ==
    ASSUME NEW s, NEW e, Sending(s, e)
    PROVE  SystemOK(ReadOn(SentOut(s)), e)
<1> DEFINE m == Len(s.c.rbuf)
           r == s.c.rsent
           d == Len(s.down)
<1>1. /\ s \in Systems /\ s.c \in Clients /\ s.sk \in Connections /\ e \in Envs
      /\ m \in Nat /\ r \in Nat /\ d \in Nat /\ s.c.pending \in Nat /\ s.c.rbuf \in Seq(Nat)
      /\ s.c.socks_closed \in BOOLEAN
  BY LenProperties DEF Sending, Mid, Systems, Clients
<1>2. /\ DeadOK(s) /\ ClientOK(s) /\ PcbOK(s) /\ SkOK(s) /\ WndOK(s) /\ PendingOK(s)
      /\ UpOK(s, e) /\ DownOK(s, e) /\ EndOK(s, e) /\ ~s.wild /\ Mid(s, e)
  BY DEF Sending, Mid
<1>3. /\ s.c.live /\ ~s.c.client_closed /\ HasPcb(s) /\ s.c.socks_up /\ s.c.rbuf # <<>>
      /\ s.sk.recv = "ready" /\ s.jobs \in {<<>>, <<"send">>} /\ r <= m
  BY DEF Sending, Mid, HasPcb
<1>4. CASE r < m /\ s.c.pending = 0
  <2>1. SentOut(s) = client_abort_client(s)
    BY <1>4 DEF SentOut
  <2>2. QED BY <2>1, <1>2, AbortKeeps
<1>5. CASE r < m /\ s.c.pending # 0
  <2> DEFINE t == [s EXCEPT !.c.waiting = TRUE]
  <2>1. SentOut(s) = t
    BY <1>5 DEF SentOut
  <2>2. /\ t \in Systems /\ t.c = [s.c EXCEPT !.waiting = TRUE] /\ t.pcb = s.pcb /\ t.sk = s.sk
        /\ t.jobs = s.jobs /\ t.call = s.call /\ t.wild = s.wild /\ t.up = s.up /\ t.down = s.down
    BY <1>1 DEF Systems, Clients
  <2> HIDE DEF t
  <2>3. /\ t.c.live = s.c.live /\ t.c.aborted = s.c.aborted /\ t.c.dead = s.c.dead
        /\ t.c.client_closed = s.c.client_closed /\ t.c.buf = s.c.buf
        /\ t.c.socks_up = s.c.socks_up /\ t.c.socks_closed = s.c.socks_closed
        /\ t.c.rbuf = s.c.rbuf /\ t.c.rsent = s.c.rsent /\ t.c.waiting /\ t.c.pending = s.c.pending
    BY <1>1, <2>2 DEF Clients
  <2>4. HasPcb(t) /\ (HasSocks(t) <=> HasSocks(s))
    BY <1>3, <2>3 DEF HasPcb, HasSocks
  <2>5. DeadOK(t)
    BY <1>2, <2>2, <2>3 DEF DeadOK
  <2>6. ClientOK(t)
    BY <1>2, <1>3, <2>3 DEF ClientOK
  <2>7. PcbOK(t)
    BY <1>2, <1>3, <2>2, <2>3, <2>4 DEF PcbOK
  <2>8. SkOK(t)
    BY <1>2, <2>2, <2>3, <2>4 DEF SkOK
  <2>9. WndOK(t) /\ PendingOK(t)
    BY <1>2, <1>3, <2>2, <2>3, <2>4 DEF WndOK, PendingOK
  <2>10. ReadOK(t)
    <3>1. s.c.pending > 0 /\ t.c.rsent < Len(t.c.rbuf)
      BY <1>1, <1>5, <2>3
    <3>2. QED BY <3>1, <1>3, <2>2, <2>3 DEF ReadOK
  <2>11. UpOK(t, e) /\ DownOK(t, e) /\ EndOK(t, e)
    BY <1>2, <1>3, <2>2, <2>3, <2>4, ZenonT(60) DEF UpOK, DownOK, EndOK
  <2>12. SystemOK(t, e)
    BY <1>1, <1>2, <2>2, <2>5, <2>6, <2>7, <2>8, <2>9, <2>10, <2>11 DEF SystemOK
  <2>13. ReadOn(t) = t
    BY <1>3, <2>3 DEF ReadOn
  <2>14. QED BY <2>1, <2>12, <2>13
<1>6. CASE ~(r < m)
  <2> DEFINE t == [s EXCEPT !.c.rbuf = <<>>, !.c.rsent = 0]
             u == client_socks_recv_initiate(t)
  <2>1. SentOut(s) = t
    BY <1>6 DEF SentOut
  <2>2. /\ t \in Systems /\ t.c = [s.c EXCEPT !.rbuf = <<>>, !.rsent = 0] /\ t.pcb = s.pcb
        /\ t.sk = s.sk /\ t.jobs = s.jobs /\ t.call = s.call /\ t.wild = s.wild /\ t.up = s.up
        /\ t.down = s.down
    <3>1. <<>> \in Seq(Nat) /\ 0 \in Nat
      OBVIOUS
    <3>2. QED BY <3>1, <1>1 DEF Systems, Clients
  <2> HIDE DEF t
  <2>3. /\ t.c.live = s.c.live /\ t.c.aborted = s.c.aborted /\ t.c.dead = s.c.dead
        /\ t.c.client_closed = s.c.client_closed /\ t.c.buf = s.c.buf
        /\ t.c.socks_up = s.c.socks_up /\ t.c.socks_closed = s.c.socks_closed
        /\ t.c.rbuf = <<>> /\ t.c.rsent = 0 /\ t.c.pending = s.c.pending
    BY <1>1, <2>2 DEF Clients
  <2>4. HasPcb(t) /\ (HasSocks(t) <=> HasSocks(s))
    BY <1>3, <2>3 DEF HasPcb, HasSocks
  <2>5. DeadOK(t)
    BY <1>2, <2>2, <2>3 DEF DeadOK
  <2>6. ClientOK(t)
    BY <1>2, <1>3, <2>3 DEF ClientOK
  <2>7. PcbOK(t)
    BY <1>2, <1>3, <2>2, <2>3, <2>4 DEF PcbOK
  <2>8. SkOK(t)
    BY <1>2, <2>2, <2>3, <2>4 DEF SkOK
  <2>9. WndOK(t) /\ PendingOK(t)
    BY <1>2, <1>3, <2>2, <2>3, <2>4 DEF WndOK, PendingOK
  <2>10. d = e.read /\ s.down = Run(0, d) /\ d <= e.read /\ e.read <= e.answer
    <3>1. r <= d /\ d - r + m = e.read /\ s.down = Run(0, d) /\ d <= e.read /\ e.read <= e.answer
      BY <1>2, <1>3 DEF DownOK
    <3>2. e.read \in Int /\ r = m
      BY <1>1, <1>3, <1>6, SizesAssumption DEF Envs
    <3> HIDE DEF r, d, m
    <3>3. QED BY <3>1, <3>2, <1>1
  <2>11. DownOK(t, e)
    <3>1. Len(t.c.rbuf) = 0 /\ Len(t.down) = d /\ t.c.rbuf = Run(d - 0, 0)
      <4>1. Len(<<>>) = 0
        OBVIOUS
      <4>2. Run(d - 0, 0) = <<>>
        BY <1>1, EmptySeq DEF Run
      <4>3. QED BY <4>1, <4>2, <2>2, <2>3
    <3>2. 0 <= 0 /\ 0 <= RecvBuf /\ 0 <= d /\ d - 0 + 0 <= e.read /\ d - 0 + 0 = e.read
      BY <1>1, <2>10, SizesAssumption
    <3> HIDE DEF d
    <3>3. QED BY <3>1, <3>2, <2>2, <2>3, <2>10 DEF DownOK
  <2>12. UpOK(t, e) /\ EndOK(t, e)
    BY <1>2, <1>3, <2>2, <2>3, <2>4 DEF UpOK, EndOK
  <2>13. CASE s.c.socks_closed
    <3>1. ReadOn(t) = t
      BY <2>3, <2>13 DEF ReadOn
    <3>2. ReadOK(t)
      BY <2>3, <2>13 DEF ReadOK, HasSocks
    <3>3. SystemOK(t, e)
      BY <3>2, <1>1, <1>2, <2>2, <2>5, <2>6, <2>7, <2>8, <2>9, <2>11, <2>12 DEF SystemOK
    <3>4. QED BY <2>1, <3>1, <3>3
  <2>14. CASE ~s.c.socks_closed
    <3>1. ReadOn(t) = u
      BY <1>3, <2>3, <2>14 DEF ReadOn
    <3>2. /\ u \in Systems /\ Beside(u, t) /\ u.c = t.c /\ u.pcb = t.pcb /\ u.call = t.call
          /\ u.sk.state = t.sk.state /\ u.sk.recv = "busy" /\ u.sk.send = t.sk.send
          /\ u.jobs \in {<<"recv">>, <<"recv", "send">>} /\ (u.jobs = <<"recv">> <=> t.jobs = <<>>)
      <4>1. t \in Systems /\ t.jobs \in {<<>>, <<"send">>}
        BY <1>3, <2>2
      <4>2. QED BY <4>1, ReadStarted DEF Started
    <3> HIDE DEF u
    <3>3. HasPcb(u) /\ HasSocks(u) /\ HasSocks(t)
      BY <1>3, <2>3, <2>14, <3>2 DEF HasPcb, HasSocks
    <3>4. SkOK(u)
      <4>1. u.jobs \notin {<<"connected">>, <<"control">>, <<"send">>, <<"send", "recv">>}
        BY <3>2, JobsDiffer
      <4>2. u.jobs = <<"recv", "send">> => t.jobs = <<"send">>
        BY <3>2, <1>3, <2>2, JobsDiffer
      <4>3. u.jobs = <<"recv", "send">> => t.sk.send = "busy"
        BY <4>2, <2>8 DEF SkOK
      <4>4. t.sk.state = "up" /\ (t.sk.send = "busy" <=> t.c.buf # <<>>) /\ t.c.socks_up
        BY <1>3, <2>3, <2>8, <3>3 DEF SkOK
      <4>5. QED BY <4>1, <4>3, <4>4, <3>2, <3>3 DEF SkOK
    <3>5. ReadOK(u)
      BY <2>3, <3>2, <3>3 DEF ReadOK
    <3>6. DeadOK(u) /\ ClientOK(u) /\ PcbOK(u) /\ WndOK(u) /\ PendingOK(u) /\ ~u.wild
      BY <1>2, <2>2, <2>4, <2>5, <2>6, <2>7, <2>9, <3>2, <3>3
      DEF DeadOK, ClientOK, PcbOK, WndOK, PendingOK, Beside
    <3>7. UpOK(u, e) /\ DownOK(u, e) /\ EndOK(u, e)
      BY <2>4, <2>11, <2>12, <3>2, <3>3 DEF UpOK, DownOK, EndOK, Beside
    <3>8. SystemOK(u, e)
      BY <3>2, <3>4, <3>5, <3>6, <3>7, <1>1 DEF SystemOK
    <3>9. QED BY <2>1, <3>1, <3>8
  <2>15. QED BY <1>1, <2>13, <2>14
<1>7. QED BY <1>4, <1>5, <1>6

\* client_socks_recv_send_out, and what follows it.
LEMMA SendOutKeeps ==
    ASSUME NEW s, NEW e, Sending(s, e)
    PROVE  \A v \in client_socks_recv_send_out(s) : SystemOK(ReadOn(v), e)
<1> DEFINE x == Len(s.c.rbuf) - s.c.rsent
           y == SndBuf - s.pcb.unacked
<1>1. x \in Nat /\ y \in Nat
  <2>1. /\ Len(s.c.rbuf) \in Nat /\ s.c.rsent \in Nat /\ s.pcb.unacked \in Nat
        /\ s.c.rsent <= Len(s.c.rbuf) /\ s.pcb.unacked <= SndBuf
    BY LenProperties DEF Sending, Mid, PendingOK, Systems, Clients, Pcbs
  <2>2. QED BY <2>1, SizesAssumption
<1> HIDE DEF x, y
<1>2. Min({x, y}) \in Nat /\ Min({x, y}) <= x /\ Min({x, y}) <= y
  <2>1. x \in Int /\ y \in Int
    BY <1>1
  <2>2. Min({x, y}) \in {x, y} /\ Min({x, y}) <= x /\ Min({x, y}) <= y
    BY ONLY <2>1, MinPair
  <2>3. QED BY <1>1, <2>2
<1> DEFINE z == Min({x, y})
<1> HIDE DEF z
<1>3. ASSUME NEW n \in {0, z}
      PROVE  SystemOK(ReadOn(SentOut(Queued(s, n))), e)
             /\ SystemOK(ReadOn(client_abort_client(Queued(s, n))), e)
  <2>1. n \in Nat /\ n <= x /\ n <= y
    BY <1>1, <1>2 DEF z
  <2>2. Sending(Queued(s, n), e)
    BY <2>1, QueuedKeeps DEF x, y
  <2>3. Mid(Queued(s, n), e)
    BY <2>2 DEF Sending
  <2>4. QED BY <2>2, <2>3, SentOutKeeps, AbortKeeps
<1>4. client_socks_recv_send_out(s) =
          {SentOut(Queued(s, n)) : n \in {0, z}} \cup {client_abort_client(Queued(s, n)) : n \in {0, z}}
  BY DEF client_socks_recv_send_out, x, y, z
<1>5. QED BY <1>3, <1>4

\* client_socks_recv_handler_done with n bytes of the proxy.  f is the
\* environment after the read.
LEMMA ReadKeeps ==
    ASSUME NEW s, NEW e, SystemOK(s, e), HasSocks(s), s.sk.recv = "busy",
           s.jobs \in {<<>>, <<"send">>},
           NEW n \in Nat \ {0}, n <= RecvBuf, e.read + n <= e.answer, NEW f \in Envs,
           f.sent = e.sent, f.read = e.read + n, f.answer = e.answer, f.fin = e.fin,
           f.failed = e.failed, f.eof = e.eof, f.quit = e.quit
    PROVE  \A t \in client_socks_recv_handler_done(s, Run(e.read, n)) : SystemOK(t, f)
<1> DEFINE t == [s EXCEPT !.sk.recv = "ready"]
           w == Run(e.read, n)
           u == [t EXCEPT !.c.rbuf = w, !.c.rsent = 0, !.c.waiting = FALSE]
<1>1. /\ s \in Systems /\ s.c \in Clients /\ s.sk \in Connections /\ e \in Envs /\ e.read \in Nat
      /\ e.answer \in Nat /\ s.c.client_closed \in BOOLEAN /\ n \in Nat /\ n >= 1
  BY SizesAssumption DEF SystemOK, Systems, Clients, Envs
<1>2. /\ DeadOK(s) /\ ClientOK(s) /\ PcbOK(s) /\ SkOK(s) /\ WndOK(s) /\ PendingOK(s) /\ ReadOK(s)
      /\ UpOK(s, e) /\ DownOK(s, e) /\ EndOK(s, e) /\ ~s.wild
  BY DEF SystemOK
<1>3. s.c.live /\ s.c.socks_up /\ ~s.c.socks_closed /\ s.sk.state = "up"
  BY <1>2 DEF SkOK, HasSocks
<1>4. /\ t \in Systems /\ t.c = s.c /\ t.pcb = s.pcb /\ t.jobs = s.jobs /\ t.call = s.call
      /\ t.wild = s.wild /\ t.up = s.up /\ t.down = s.down
      /\ t.sk.recv = "ready" /\ t.sk.send = s.sk.send /\ t.sk.state = s.sk.state
  BY <1>1 DEF Systems, Connections
<1>5. w \in Seq(Nat) /\ Len(w) = n /\ w # <<>>
  <2> DEFINE a == e.read
  <2>1. a \in Nat /\ n \in Nat /\ n # 0
    BY <1>1
  <2> HIDE DEF a
  <2>2. Run(a, n) \in Seq(Nat) /\ Len(Run(a, n)) = n /\ (Run(a, n) = <<>> <=> n = 0)
    BY ONLY <2>1, RunSeq
  <2>3. QED BY <2>1, <2>2 DEF a
<1>6. s.pcb.state # "syn_rcvd"
  BY <1>2, <1>3 DEF EndOK
<1> HIDE DEF t, w
<1>7. CASE s.c.client_closed
  <2>1. client_socks_recv_handler_done(s, w) = {t}
    BY <1>7 DEF client_socks_recv_handler_done, t
  <2>2. ~HasPcb(t) /\ HasSocks(t) /\ ~HasPcb(s)
    BY <1>3, <1>4, <1>7 DEF HasPcb, HasSocks
  <2>3. SkOK(t)
    <3>1. t.jobs \notin {<<"connected">>, <<"control">>, <<"recv">>, <<"send", "recv">>, <<"recv", "send">>}
      BY <1>4, JobsDiffer
    <3>2. t.jobs = <<"send">> => s.sk.send = "busy"
      BY <1>2, <1>4 DEF SkOK
    <3>3. QED BY <3>1, <3>2, <2>2, <1>2, <1>3, <1>4 DEF SkOK
  <2>4. DeadOK(t) /\ ClientOK(t) /\ PcbOK(t) /\ WndOK(t) /\ PendingOK(t) /\ ReadOK(t)
    BY <2>2, <1>2, <1>4 DEF DeadOK, ClientOK, PcbOK, WndOK, PendingOK, ReadOK, HasSocks
  <2>5. UpOK(t, f)
    BY <2>2, <1>2, <1>4 DEF UpOK, HasSocks
  <2>6. DownOK(t, f)
    <3>1. Len(s.down) \in Nat /\ e.read <= f.read /\ f.read <= f.answer
      BY <1>1, LenProperties DEF Systems
    <3>2. Len(s.down) <= f.read
      BY <1>1, <1>2, <3>1 DEF DownOK
    <3>3. Len(s.down) - s.c.rsent + Len(s.c.rbuf) <= f.read
      <4>1. Len(s.down) - s.c.rsent + Len(s.c.rbuf) <= e.read
        BY <1>2, <1>3 DEF DownOK
      <4>2. s.c.rsent \in Nat /\ Len(s.c.rbuf) \in Nat
        BY <1>1, LenProperties DEF Clients
      <4> DEFINE o == Len(s.down) - s.c.rsent + Len(s.c.rbuf)
      <4>3. o \in Int /\ o <= e.read
        BY <4>1, <4>2, <3>1
      <4> HIDE DEF o
      <4>4. o <= f.read
        BY <4>3, <3>1, <1>1
      <4>5. QED BY <4>4 DEF o
    <3>4. QED BY <3>1, <3>2, <3>3, <2>2, <1>2, <1>3, <1>4 DEF DownOK
  <2>7. EndOK(t, f)
    BY <2>2, <1>2, <1>3, <1>4, <1>6 DEF EndOK
  <2>8. SystemOK(t, f)
    BY <2>3, <2>4, <2>5, <2>6, <2>7, <1>2, <1>4 DEF SystemOK
  <2>9. QED BY <2>1, <2>8 DEF w
<1>8. CASE ~s.c.client_closed
  <2>1. client_socks_recv_handler_done(s, w) = {ReadOn(v) : v \in client_socks_recv_send_out(u)}
    BY <1>8 DEF client_socks_recv_handler_done, t
  <2>2. /\ u \in Systems /\ u.c = [s.c EXCEPT !.rbuf = w, !.rsent = 0, !.waiting = FALSE]
        /\ u.pcb = s.pcb /\ u.sk = t.sk /\ u.jobs = s.jobs /\ u.call = s.call
        /\ u.wild = s.wild /\ u.up = s.up /\ u.down = s.down
    <3>1. 0 \in Nat /\ FALSE \in BOOLEAN
      OBVIOUS
    <3>2. QED BY <3>1, <1>4, <1>5 DEF Systems, Clients
  <2> HIDE DEF u
  <2>3. /\ u.c.live = s.c.live /\ u.c.aborted = s.c.aborted /\ u.c.dead = s.c.dead
        /\ u.c.client_closed = s.c.client_closed /\ u.c.buf = s.c.buf
        /\ u.c.socks_up = s.c.socks_up /\ u.c.socks_closed = s.c.socks_closed
        /\ u.c.rbuf = w /\ u.c.rsent = 0 /\ u.c.pending = s.c.pending
    BY <1>1, <2>2 DEF Clients
  <2>4. HasPcb(u) /\ HasSocks(u) /\ HasPcb(s)
    BY <1>3, <1>8, <2>3 DEF HasPcb, HasSocks
  <2>5. DeadOK(u)
    BY <1>2, <2>2, <2>3 DEF DeadOK
  <2>6. ClientOK(u)
    BY <1>2, <1>3, <1>8, <2>3 DEF ClientOK
  <2>7. PcbOK(u)
    BY <1>2, <2>2, <2>3, <2>4 DEF PcbOK
  <2>8. SkOK(u)
    <3>1. u.jobs \notin {<<"connected">>, <<"control">>, <<"recv">>, <<"send", "recv">>, <<"recv", "send">>}
      BY <2>2, JobsDiffer
    <3>2. u.jobs = <<"send">> => s.sk.send = "busy"
      BY <1>2, <2>2 DEF SkOK
    <3>3. QED BY <3>1, <3>2, <2>2, <2>3, <2>4, <1>2, <1>3, <1>4 DEF SkOK
  <2>9. WndOK(u) /\ PendingOK(u)
    BY <1>2, <1>3, <2>2, <2>3, <2>4 DEF WndOK, PendingOK
  <2>10. DownOK(u, f)
    <3> DEFINE d == Len(s.down)
    <3>1. s.c.rbuf = <<>> /\ s.c.rsent = 0
      BY <2>4, <1>2, <1>3 DEF ReadOK
    <3>2. d - 0 + 0 = e.read /\ s.down = Run(0, d)
      BY <3>1, <2>4, <1>2 DEF DownOK
    <3>3. d \in Nat
      BY <1>1, LenProperties DEF Systems
    <3>4. Len(u.down) = d /\ u.down = Run(0, d)
      BY <3>2, <2>2
    <3> HIDE DEF d
    <3>5. d = e.read /\ d - 0 = e.read
      BY <3>2, <3>3
    <3>6. d <= f.read /\ f.read <= f.answer /\ 0 <= n /\ 0 <= d /\ d - 0 + n <= f.read /\ d - 0 + n = f.read
      BY <3>3, <3>5, <1>1
    <3>7. Len(u.c.rbuf) = n /\ u.c.rbuf = Run(d - 0, n)
      BY <3>5, <2>3, <1>5 DEF w
    <3>8. QED BY <3>4, <3>6, <3>7, <2>3 DEF DownOK
  <2>11. UpOK(u, f)
    BY <1>2, <1>3, <2>2, <2>3, <2>4 DEF UpOK, HasSocks
  <2>12. ~e.fin /\ s.pcb.end # "fin"
    BY <2>4, <1>2, <1>3 DEF EndOK
  <2>13. EndOK(u, f)
    BY <2>2, <2>4, <2>12, <1>6 DEF EndOK
  <2>14. ~u.c.aborted /\ ~u.pcb.refused /\ ~u.wild
    BY <2>2, <2>3, <2>4, <1>2 DEF ClientOK, PcbOK, HasPcb
  <2>15. Mid(u, f)
    BY <2>2, <2>4, <2>5, <2>8, <2>9, <2>10, <2>11, <2>12, <2>14 DEF Mid
  <2>16. Sending(u, f)
    <3>1. u.c.rsent <= Len(u.c.rbuf)
      BY <2>3, <1>1, <1>5
    <3>2. QED BY <3>1, <2>2, <2>3, <2>6, <2>7, <2>13, <2>15, <1>3, <1>4, <1>5 DEF Sending
  <2>17. \A v \in client_socks_recv_send_out(u) : SystemOK(ReadOn(v), f)
    BY <2>16, SendOutKeeps
  <2>18. QED BY <2>1, <2>17 DEF w
<1>9. QED BY <1>1, <1>7, <1>8

\* client_sent_func: n bytes were acknowledged.
LEMMA AckKeeps ==
    ASSUME NEW s, NEW e, SystemOK(s, e), s.jobs = <<>>, s.pcb.sent, NEW n \in 1..s.pcb.unacked
    PROVE  \A t \in client_sent_func(Enter([s EXCEPT !.pcb.unacked = @ - n], "sent"), n) :
               SystemOK(t, e)
<1> DEFINE x == [s EXCEPT !.pcb.unacked = @ - n]
           y == Enter(x, "sent")
           t == [y EXCEPT !.c.pending = @ - n]
           q == s.pcb.unacked - n
<1>1. /\ s \in Systems /\ s.c \in Clients /\ s.pcb \in Pcbs /\ s.sk \in Connections /\ e \in Envs
      /\ s.pcb.unacked \in Nat /\ s.c.pending \in Nat /\ s.c.rbuf \in Seq(Nat)
      /\ s.c.socks_closed \in BOOLEAN
  BY DEF SystemOK, Systems, Clients, Pcbs
<1>2. /\ DeadOK(s) /\ ClientOK(s) /\ PcbOK(s) /\ SkOK(s) /\ WndOK(s) /\ PendingOK(s) /\ ReadOK(s)
      /\ UpOK(s, e) /\ DownOK(s, e) /\ EndOK(s, e) /\ ~s.wild
  BY DEF SystemOK
<1>3. HasPcb(s) /\ s.c.live /\ ~s.c.client_closed /\ s.c.socks_up /\ ~s.c.aborted
  BY <1>2 DEF PcbOK, HasPcb, ClientOK
<1>4. q \in Nat /\ q <= SndBuf /\ s.c.pending - n = q
  <2>1. s.c.pending = s.pcb.unacked /\ s.pcb.unacked <= SndBuf
    BY <1>2, <1>3 DEF PendingOK
  <2>2. QED BY <2>1, <1>1, SizesAssumption
<1>5. x = [s EXCEPT !.pcb.unacked = q]
  BY <1>1 DEF Systems
<1> HIDE DEF q, x
<1>6. /\ x \in Systems /\ x.c = s.c /\ x.pcb = [s.pcb EXCEPT !.unacked = q] /\ x.sk = s.sk
      /\ x.jobs = s.jobs /\ x.wild = s.wild /\ x.up = s.up /\ x.down = s.down /\ ~x.c.aborted
  BY <1>1, <1>3, <1>4, <1>5 DEF Systems, Pcbs
<1>7. /\ y \in Systems /\ Beside(y, x) /\ y.c = [x.c EXCEPT !.dead = "frame"]
      /\ y.pcb = x.pcb /\ y.sk = x.sk /\ y.jobs = x.jobs /\ y.call.fn = "sent" /\ DeadOK(y)
      /\ y.c.dead = "frame" /\ KeepsBuffers(y, x) /\ y.c.client_closed = x.c.client_closed
      /\ y.c.socks_closed = x.c.socks_closed /\ y.c.aborted = x.c.aborted
  <2>1. "sent" \in {"accept", "recv", "sent"}
    OBVIOUS
  <2>2. QED BY <2>1, <1>6, EnterFields
<1> HIDE DEF y
<1>8. t = [y EXCEPT !.c.pending = q]
  <2>1. y.c.pending - n = q
    BY <1>4, <1>6, <1>7 DEF KeepsBuffers
  <2>2. QED BY <2>1, <1>7 DEF Systems
<1> HIDE DEF t
<1>9. /\ t \in Systems /\ t.c = [y.c EXCEPT !.pending = q] /\ t.pcb = y.pcb /\ t.sk = y.sk
      /\ t.jobs = y.jobs /\ t.call = y.call /\ t.wild = y.wild /\ t.up = y.up /\ t.down = y.down
  BY <1>4, <1>7, <1>8 DEF Systems, Clients
<1>10. y.c \in Clients
  BY <1>7 DEF Systems
<1>11. /\ t.c.live = y.c.live /\ t.c.aborted = y.c.aborted /\ t.c.dead = y.c.dead
       /\ t.c.client_closed = y.c.client_closed /\ t.c.buf = y.c.buf
       /\ t.c.socks_up = y.c.socks_up /\ t.c.socks_closed = y.c.socks_closed
       /\ t.c.rbuf = y.c.rbuf /\ t.c.rsent = y.c.rsent /\ t.c.waiting = y.c.waiting
       /\ t.c.pending = q
  BY <1>9, <1>10 DEF Clients
<1>12. /\ t.c.live /\ ~t.c.aborted /\ ~t.c.client_closed /\ t.c.buf = s.c.buf
       /\ t.c.socks_up /\ t.c.socks_closed = s.c.socks_closed
       /\ t.c.rbuf = s.c.rbuf /\ t.c.rsent = s.c.rsent /\ t.c.waiting = s.c.waiting
  BY <1>3, <1>6, <1>7, <1>11 DEF KeepsBuffers
<1>13. /\ t.pcb.state = s.pcb.state /\ t.pcb.unacked = q /\ t.pcb.end = s.pcb.end
       /\ t.pcb.recv = s.pcb.recv /\ t.pcb.sent = s.pcb.sent /\ t.pcb.err = s.pcb.err
       /\ t.pcb.refused = s.pcb.refused /\ t.pcb.wnd = s.pcb.wnd
  <2>1. t.pcb = [s.pcb EXCEPT !.unacked = q]
    BY <1>6, <1>7, <1>9
  <2>2. QED BY <2>1, <1>1 DEF Pcbs
<1>14. t.sk = s.sk /\ t.jobs = <<>> /\ ~t.wild /\ t.up = s.up /\ t.down = s.down
  BY <1>2, <1>6, <1>7, <1>9 DEF Beside
<1>15. HasPcb(t) /\ (HasSocks(t) <=> HasSocks(s))
  BY <1>3, <1>12 DEF HasPcb, HasSocks
<1>16. DeadOK(t)
  BY <1>7, <1>9, <1>11 DEF DeadOK
<1>17. ClientOK(t) /\ PcbOK(t)
  BY <1>2, <1>3, <1>12, <1>13, <1>15 DEF ClientOK, PcbOK
<1>18. SkOK(t)
  BY <1>2, <1>3, <1>12, <1>14, <1>15 DEF SkOK
<1>19. WndOK(t) /\ PendingOK(t)
  BY <1>2, <1>3, <1>4, <1>11, <1>12, <1>13, <1>15 DEF WndOK, PendingOK
<1>20. UpOK(t, e) /\ DownOK(t, e)
  BY <1>2, <1>3, <1>12, <1>14, <1>15 DEF UpOK, DownOK
<1>21. ~e.fin /\ s.pcb.end # "fin" /\ s.pcb.state # "syn_rcvd"
  BY <1>2, <1>3 DEF EndOK, PcbOK, PcbOpen
<1>22. EndOK(t, e)
  BY <1>2, <1>3, <1>12, <1>13, <1>15, <1>21 DEF EndOK
<1>23. Mid(t, e)
  <2>1. ~t.pcb.refused
    BY <1>17 DEF PcbOK
  <2>2. QED BY <2>1, <1>1, <1>9, <1>12, <1>14, <1>15, <1>16, <1>18, <1>19, <1>20, <1>21 DEF Mid
<1>24. CASE s.c.rbuf # <<>>
  <2> DEFINE u == [t EXCEPT !.c.waiting = FALSE]
  <2>1. client_sent_func(y, n) = {ReadOn(v) : v \in client_socks_recv_send_out(u)}
    BY <1>12, <1>24 DEF client_sent_func, t
  <2>2. /\ u \in Systems /\ u.c = [t.c EXCEPT !.waiting = FALSE] /\ u.pcb = t.pcb /\ u.sk = t.sk
        /\ u.jobs = t.jobs /\ u.call = t.call /\ u.wild = t.wild /\ u.up = t.up /\ u.down = t.down
    BY <1>9 DEF Systems, Clients
  <2>3. t.c \in Clients
    BY <1>9 DEF Systems
  <2> HIDE DEF u
  <2>4. /\ u.c.live = t.c.live /\ u.c.aborted = t.c.aborted /\ u.c.dead = t.c.dead
        /\ u.c.client_closed = t.c.client_closed /\ u.c.buf = t.c.buf
        /\ u.c.socks_up = t.c.socks_up /\ u.c.socks_closed = t.c.socks_closed
        /\ u.c.rbuf = t.c.rbuf /\ u.c.rsent = t.c.rsent /\ u.c.pending = t.c.pending
    BY <2>2, <2>3 DEF Clients
  <2>5. HasPcb(u) /\ (HasSocks(u) <=> HasSocks(t))
    BY <1>12, <2>4 DEF HasPcb, HasSocks
  <2>6. DeadOK(u)
    BY <1>16, <2>2, <2>4 DEF DeadOK
  <2>7. ClientOK(u) /\ PcbOK(u)
    BY <1>12, <1>15, <1>17, <2>2, <2>4, <2>5 DEF ClientOK, PcbOK
  <2>8. SkOK(u)
    BY <1>18, <2>2, <2>4, <2>5 DEF SkOK
  <2>9. WndOK(u) /\ PendingOK(u)
    BY <1>12, <1>15, <1>19, <2>2, <2>4, <2>5 DEF WndOK, PendingOK
  <2>10. UpOK(u, e) /\ DownOK(u, e) /\ EndOK(u, e)
    BY <1>15, <1>20, <1>22, <2>2, <2>4, <2>5, ZenonT(60) DEF UpOK, DownOK, EndOK
  <2>11. Mid(u, e)
    <3>1. ~u.c.aborted /\ ~u.pcb.refused /\ ~u.wild
      BY <1>12, <1>14, <1>17, <2>2, <2>4 DEF PcbOK
    <3>2. QED BY <3>1, <1>1, <1>21, <2>2, <2>5, <2>6, <2>8, <2>9, <2>10 DEF Mid
  <2>12. u.sk.recv = "ready"
    <3>1. CASE HasSocks(s)
      <4>1. s.sk.recv # "busy"
        BY <3>1, <1>2, <1>3, <1>24 DEF ReadOK
      <4>2. s.sk.recv \in {"ready", "busy"}
        BY <1>1 DEF Connections
      <4>3. QED BY <4>1, <4>2, <1>14, <2>2
    <3>2. CASE ~HasSocks(s)
      BY <3>2, <1>2, <1>14, <2>2 DEF SkOK
    <3>3. QED BY <3>1, <3>2
  <2>13. u.c.rsent <= Len(u.c.rbuf)
    BY <1>12, <2>4, <2>10 DEF DownOK
  <2>14. Sending(u, e)
    BY <1>12, <1>14, <1>24, <2>2, <2>4, <2>7, <2>10, <2>11, <2>12, <2>13 DEF Sending
  <2>15. \A v \in client_socks_recv_send_out(u) : SystemOK(ReadOn(v), e)
    BY <2>14, SendOutKeeps
  <2>16. QED BY <2>1, <2>15 DEF y, x
<1>25. CASE s.c.rbuf = <<>> /\ t.c.socks_closed /\ t.c.pending = 0
  <2>1. client_sent_func(y, n) = client_free_client(t)
    BY <1>12, <1>25 DEF client_sent_func, t
  <2>2. \A v \in client_free_client(t) : Gone(v, t)
    BY <1>9, <1>12, <1>16, ClientFreed
  <2>3. ~HasSocks(t) /\ t.c.rbuf = <<>> /\ (e.failed \/ e.read = e.answer)
    <3>1. ~HasSocks(t)
      BY <1>25 DEF HasSocks
    <3>2. QED BY <3>1, <1>12, <1>22, <1>25 DEF EndOK
  <2>4. ASSUME NEW v \in client_free_client(t) PROVE SystemOK(v, e)
    <3>1. Gone(v, t)
      BY <2>2
    <3>2. QED BY <3>1, <2>3, <1>1, <1>21, <1>23, GoneKeeps
  <2>5. QED BY <2>1, <2>4 DEF y, x
<1>26. CASE s.c.rbuf = <<>> /\ ~(t.c.socks_closed /\ t.c.pending = 0)
  <2>1. client_sent_func(y, n) = {t}
    BY <1>12, <1>26 DEF client_sent_func, t
  <2>2. ReadOK(t)
    BY <1>2, <1>3, <1>12, <1>14, <1>15, <1>26 DEF ReadOK
  <2>3. SystemOK(t, e)
    BY <2>2, <1>1, <1>9, <1>14, <1>16, <1>17, <1>18, <1>19, <1>20, <1>22 DEF SystemOK
  <2>4. QED BY <2>1, <2>3 DEF y, x
<1>27. QED BY <1>24, <1>25, <1>26
------------------------------------------------------------------------------
(* The callbacks of lwIP *)

\* client_recv_func with n bytes of the application.  f is the environment
\* after they were sent.
LEMMA RecvKeeps ==
    ASSUME NEW s, NEW e, SystemOK(s, e), s.jobs = <<>>, s.pcb.recv,
           NEW n \in Nat \ {0}, n <= s.pcb.wnd, NEW f \in Envs,
           f.sent = e.sent + n, f.read = e.read, f.answer = e.answer, f.fin = e.fin,
           f.failed = e.failed, f.eof = e.eof, f.quit = e.quit
    PROVE  SystemOK(client_recv_func(Enter([s EXCEPT !.pcb.wnd = @ - n], "recv"), Run(e.sent, n)), f)
<1> DEFINE x == [s EXCEPT !.pcb.wnd = @ - n]
           y == Enter(x, "recv")
           w == Run(e.sent, n)
           a == Len(s.up)
           m == Len(s.c.buf)
           q == s.pcb.wnd - n
           k == m + n
           z == Run(a, k)
           t == [y EXCEPT !.c.buf = z]
           g == client_recv_func(y, w)
<1>1. /\ s \in Systems /\ s.c \in Clients /\ s.pcb \in Pcbs /\ s.sk \in Connections /\ e \in Envs
      /\ s.pcb.wnd \in Nat /\ s.c.buf \in Seq(Nat) /\ a \in Nat /\ m \in Nat /\ e.sent \in Nat
      /\ n \in Nat /\ n >= 1
  BY LenProperties, SizesAssumption DEF SystemOK, Systems, Clients, Pcbs, Envs
<1>2. /\ DeadOK(s) /\ ClientOK(s) /\ PcbOK(s) /\ SkOK(s) /\ WndOK(s) /\ PendingOK(s) /\ ReadOK(s)
      /\ UpOK(s, e) /\ DownOK(s, e) /\ EndOK(s, e) /\ ~s.wild
  BY DEF SystemOK
<1>3. /\ HasPcb(s) /\ HasSocks(s) /\ s.c.live /\ ~s.c.client_closed /\ ~s.c.socks_closed
      /\ ~s.c.aborted /\ ~s.pcb.refused
  BY <1>2 DEF PcbOK, HasPcb, HasSocks, ClientOK
<1>4. q \in Nat /\ k \in Nat /\ q + k = Wnd /\ q <= Wnd /\ k <= Wnd /\ k # 0
  <2> DEFINE v == s.pcb.wnd
  <2>1. v + m = Wnd /\ v \in Nat /\ m \in Nat /\ n \in Nat /\ n >= 1 /\ n <= v
    BY <1>1, <1>2, <1>3 DEF WndOK
  <2>2. q = v - n /\ k = m + n
    OBVIOUS
  <2> HIDE DEF v, m, q, k
  <2>3. QED BY <2>1, <2>2, SizesAssumption
<1>5. s.up = Run(0, a) /\ s.c.buf = Run(a, m) /\ a + m = e.sent
  BY <1>2, <1>3 DEF UpOK
<1>6. x = [s EXCEPT !.pcb.wnd = q]
  BY <1>1 DEF Systems
<1> HIDE DEF a, m, q, x
<1>7. z \in Seq(Nat) /\ Len(z) = k /\ z # <<>>
  <2> HIDE DEF k
  <2>1. a \in Nat /\ k \in Nat /\ k # 0
    BY <1>1, <1>4
  <2>2. Run(a, k) \in Seq(Nat) /\ Len(Run(a, k)) = k /\ (Run(a, k) = <<>> <=> k = 0)
    BY ONLY <2>1, RunSeq
  <2>3. QED BY <2>1, <2>2
<1>8. s.c.buf \o w = z
  <2>1. Run(a, m) \o Run(a + m, n) = Run(a, m + n)
    <3>1. a \in Nat /\ m \in Nat /\ n \in Nat
      BY <1>1
    <3>2. QED BY ONLY <3>1, RunJoin
  <2>2. QED BY <2>1, <1>5
<1>9. w \in Seq(Nat) /\ Len(w) = n
  <2> DEFINE o == e.sent
  <2>1. o \in Nat /\ n \in Nat
    BY <1>1
  <2> HIDE DEF o
  <2>2. Run(o, n) \in Seq(Nat) /\ Len(Run(o, n)) = n
    BY ONLY <2>1, RunSeq
  <2>3. QED BY <2>2 DEF o
<1>10. z = w <=> s.c.buf = <<>>
  <2>1. ASSUME z = w PROVE s.c.buf = <<>>
    <3>1. m = 0
      BY <2>1, <1>1, <1>7, <1>9
    <3>2. QED BY <3>1, <1>1, EmptySeq DEF m
  <2>2. ASSUME s.c.buf = <<>> PROVE z = w
    BY <2>2, <1>8, <1>9, ConcatEmptySeq
  <2>3. QED BY <2>1, <2>2
<1>11. /\ x \in Systems /\ x.c = s.c /\ x.pcb = [s.pcb EXCEPT !.wnd = q] /\ x.sk = s.sk
       /\ x.jobs = s.jobs /\ x.wild = s.wild /\ x.up = s.up /\ x.down = s.down /\ ~x.c.aborted
  BY <1>1, <1>3, <1>4, <1>6 DEF Systems, Pcbs
<1>12. /\ y \in Systems /\ Beside(y, x) /\ y.c = [x.c EXCEPT !.dead = "frame"]
       /\ y.pcb = x.pcb /\ y.sk = x.sk /\ y.jobs = x.jobs /\ y.call.fn = "recv" /\ DeadOK(y)
       /\ y.c.dead = "frame" /\ KeepsBuffers(y, x) /\ y.c.client_closed = x.c.client_closed
       /\ y.c.socks_closed = x.c.socks_closed /\ y.c.aborted = x.c.aborted
  <2>1. "recv" \in {"accept", "recv", "sent"}
    OBVIOUS
  <2>2. QED BY <2>1, <1>11, EnterFields
<1> HIDE DEF y, w, z
<1>13. RecvBuffered(y, w) = t
  <2>1. y.c.buf = s.c.buf /\ y.c.buf \o w = z
    BY <1>8, <1>11, <1>12 DEF KeepsBuffers
  <2>2. Len(y.c.buf) + Len(w) = k
    BY <2>1, <1>9 DEF m
  <2>3. ~(Len(y.c.buf) + Len(w) > Wnd)
    BY <2>2, <1>4, SizesAssumption
  <2>4. RecvBuffered(y, w) = [y EXCEPT !.c.buf = @ \o w]
    BY <2>3 DEF RecvBuffered
  <2>5. QED BY <2>1, <2>4, <1>12 DEF Systems
<1> HIDE DEF t, k
<1>14. /\ t \in Systems /\ t.c = [y.c EXCEPT !.buf = z] /\ t.pcb = y.pcb /\ t.sk = y.sk
       /\ t.jobs = y.jobs /\ t.call = y.call /\ t.wild = y.wild /\ t.up = y.up /\ t.down = y.down
  BY <1>7, <1>12 DEF Systems, Clients, t
<1>15. y.c \in Clients
  BY <1>12 DEF Systems
<1>16. /\ t.c.live = y.c.live /\ t.c.aborted = y.c.aborted /\ t.c.dead = y.c.dead
       /\ t.c.client_closed = y.c.client_closed /\ t.c.buf = z
       /\ t.c.socks_up = y.c.socks_up /\ t.c.socks_closed = y.c.socks_closed
       /\ t.c.rbuf = y.c.rbuf /\ t.c.rsent = y.c.rsent /\ t.c.waiting = y.c.waiting
       /\ t.c.pending = y.c.pending
  BY <1>14, <1>15 DEF Clients
<1>17. /\ t.c.live /\ ~t.c.aborted /\ ~t.c.client_closed /\ ~t.c.socks_closed
       /\ t.c.socks_up = s.c.socks_up /\ t.c.pending = s.c.pending
       /\ t.c.rbuf = s.c.rbuf /\ t.c.rsent = s.c.rsent /\ t.c.waiting = s.c.waiting
  BY <1>3, <1>11, <1>12, <1>16 DEF KeepsBuffers
<1>18. /\ t.pcb.state = s.pcb.state /\ t.pcb.unacked = s.pcb.unacked /\ t.pcb.end = s.pcb.end
       /\ t.pcb.recv = s.pcb.recv /\ t.pcb.sent = s.pcb.sent /\ t.pcb.err = s.pcb.err
       /\ t.pcb.refused = s.pcb.refused /\ t.pcb.wnd = q
  <2>1. t.pcb = [s.pcb EXCEPT !.wnd = q]
    BY <1>11, <1>12, <1>14
  <2>2. QED BY <2>1, <1>1 DEF Pcbs
<1>19. t.sk = s.sk /\ t.jobs = <<>> /\ ~t.wild /\ t.up = s.up /\ t.down = s.down
  BY <1>2, <1>11, <1>12, <1>14 DEF Beside
<1>20. HasPcb(t) /\ HasSocks(t)
  BY <1>17 DEF HasPcb, HasSocks
<1>21. g = IF s.c.buf = <<>> /\ s.c.socks_up THEN client_send_to_socks(t) ELSE t
  BY <1>10, <1>13, <1>16, <1>17 DEF client_recv_func
<1>22. DeadOK(t) /\ ClientOK(t) /\ PcbOK(t)
  <2>1. DeadOK(t)
    BY <1>12, <1>14, <1>16 DEF DeadOK
  <2>2. ClientOK(t)
    BY <1>17 DEF ClientOK
  <2>3. PcbOK(t)
    BY <1>2, <1>3, <1>17, <1>18, <1>20 DEF PcbOK
  <2>4. QED BY <2>1, <2>2, <2>3
<1>23. WndOK(t)
  BY <1>4, <1>7, <1>16, <1>18 DEF WndOK
<1>24. PendingOK(t) /\ ReadOK(t) /\ DownOK(t, f)
  <2>1. PendingOK(t) /\ ReadOK(t)
    BY <1>2, <1>3, <1>17, <1>18, <1>19, <1>20 DEF PendingOK, ReadOK
  <2>2. DownOK(t, f)
    BY <1>2, <1>3, <1>17, <1>19, <1>20 DEF DownOK
  <2>3. QED BY <2>1, <2>2
<1>25. UpOK(t, f)
  <2>1. Len(t.up) = a /\ t.up = Run(0, a)
    BY <1>5, <1>19 DEF a
  <2>2. Len(t.c.buf) = k /\ t.c.buf = Run(a, k)
    BY <1>7, <1>16 DEF z
  <2>3. a <= f.sent /\ a + k <= f.sent /\ a + k = f.sent
    BY <1>1, <1>5 DEF k
  <2>4. QED BY <2>1, <2>2, <2>3 DEF UpOK
<1>26. EndOK(t, f)
  <2>1. ~e.fin /\ s.pcb.end # "fin" /\ s.pcb.state # "syn_rcvd"
    BY <1>2, <1>3 DEF EndOK, PcbOK, PcbOpen
  <2>2. QED BY <2>1, <1>18, <1>20 DEF EndOK
<1>27. CASE s.c.buf = <<>> /\ s.c.socks_up
  <2> DEFINE u == client_send_to_socks(t)
  <2>1. /\ u \in Systems /\ Beside(u, t) /\ u.c = t.c /\ u.pcb = t.pcb /\ u.call = t.call
        /\ u.sk.state = t.sk.state /\ u.sk.send = "busy" /\ u.sk.recv = t.sk.recv
        /\ u.jobs \in {<<"send">>, <<"send", "recv">>} /\ (u.jobs = <<"send">> <=> t.jobs = <<>>)
    <3>1. t \in Systems /\ t.jobs \in {<<>>, <<"recv">>}
      BY <1>14, <1>19
    <3>2. QED BY ONLY <3>1, SendStarted DEF Started
  <2> HIDE DEF u
  <2>2. u.jobs = <<"send">>
    BY <2>1, <1>19
  <2>3. HasPcb(u) /\ HasSocks(u)
    BY <2>1, <1>20 DEF HasPcb, HasSocks
  <2>4. SkOK(u)
    <3>1. u.jobs \notin {<<"connected">>, <<"control">>, <<"recv">>, <<"send", "recv">>, <<"recv", "send">>}
      BY <2>2, JobsDiffer
    <3>2. s.sk.state = "up"
      BY <1>2, <1>3, <1>27 DEF SkOK
    <3>3. u.c.socks_up /\ u.c.buf # <<>> /\ u.sk.state = "up"
      BY <3>2, <1>7, <1>16, <1>17, <1>19, <1>27, <2>1, ZenonT(60)
    <3>4. QED BY <3>1, <3>3, <2>1, <2>3 DEF SkOK
  <2>5. ReadOK(u)
    BY <1>20, <1>24, <2>1, <2>3 DEF ReadOK
  <2>6. DeadOK(u) /\ ClientOK(u) /\ PcbOK(u) /\ WndOK(u) /\ PendingOK(u) /\ ~u.wild
    BY <1>19, <1>20, <1>22, <1>23, <1>24, <2>1, <2>3
    DEF DeadOK, ClientOK, PcbOK, WndOK, PendingOK, Beside
  <2>7. UpOK(u, f) /\ DownOK(u, f) /\ EndOK(u, f)
    BY <1>20, <1>24, <1>25, <1>26, <2>1, <2>3 DEF UpOK, DownOK, EndOK, Beside
  <2>8. SystemOK(u, f)
    BY <2>1, <2>4, <2>5, <2>6, <2>7 DEF SystemOK
  <2>9. QED BY <2>8, <1>21, <1>27 DEF u, g, y, x, w
<1>28. CASE ~(s.c.buf = <<>> /\ s.c.socks_up)
  <2>1. SkOK(t)
    <3>1. s.sk.send = "busy" <=> s.c.socks_up
      BY <1>2, <1>3, <1>28 DEF SkOK
    <3>2. t.c.buf # <<>>
      BY <1>7, <1>16
    <3>3. QED BY <3>1, <3>2, <1>2, <1>3, <1>17, <1>19, <1>20, JobsDiffer DEF SkOK
  <2>2. SystemOK(t, f)
    BY <2>1, <1>14, <1>19, <1>22, <1>23, <1>24, <1>25, <1>26 DEF SystemOK
  <2>3. QED BY <2>2, <1>21, <1>28 DEF g, y, x, w
<1>29. QED BY <1>27, <1>28

\* Without a recv callback the application's data is lost; f is the
\* environment after it was sent.
LEMMA DroppedKeeps ==
    ASSUME NEW s, NEW e, SystemOK(s, e), ~s.pcb.recv, s.pcb.state \in PcbOpen,
           NEW f \in Envs, f.sent >= e.sent, f.read = e.read, f.answer = e.answer, f.fin = e.fin,
           f.failed = e.failed, f.eof = e.eof, f.quit = e.quit
    PROVE  SystemOK(s, f)
<1>1. HasPcb(s) /\ ~HasSocks(s)
  BY DEF SystemOK, PcbOK
<1>2. UpOK(s, f)
  <2> DEFINE a == Len(s.up)
             m == Len(s.c.buf)
  <2>1. a \in Nat /\ m \in Nat /\ e.sent \in Nat /\ f.sent \in Nat
    BY LenProperties, SizesAssumption DEF SystemOK, Systems, Clients, Envs
  <2>2. s.up = Run(0, a) /\ s.c.buf = Run(a, m) /\ a <= e.sent /\ a + m <= e.sent
    BY <1>1 DEF SystemOK, UpOK, HasPcb
  <2> HIDE DEF a, m
  <2>3. a <= f.sent /\ a + m <= f.sent
    BY <2>1, <2>2
  <2>4. QED BY <2>2, <2>3, <1>1 DEF UpOK, a, m
<1>3. DownOK(s, f)
  BY DEF SystemOK, DownOK
<1>4. EndOK(s, f)
  <2>1. ~e.fin /\ s.pcb.end # "fin" /\ s.pcb.state # "syn_rcvd"
    BY <1>1 DEF SystemOK, EndOK, PcbOpen, HasPcb
  <2>2. QED BY <2>1, <1>1 DEF SystemOK, EndOK
<1>5. QED BY <1>2, <1>3, <1>4 DEF SystemOK
------------------------------------------------------------------------------
(* The handshake *)

\* The handshake as a table.
LEMMA HandshakeTable ==
    /\ Handshake \in Seq(Steps \cup {"up"}) /\ Len(Handshake) = 6 /\ DOMAIN Handshake = 1..6
    /\ Handshake[1] = "sending_hello" /\ Handshake[2] = "sent_hello"
    /\ Handshake[3] = "sending_request" /\ Handshake[4] = "sent_request"
    /\ Handshake[5] = "received_reply_header" /\ Handshake[6] = "up"
  BY DEF Handshake, Steps

\* A step of the handshake leads to the next one, or to its end.
LEMMA HandshakeGoesOn ==
    ASSUME NEW x \in Steps
    PROVE  HandshakeNext(x) \in Steps \cup {"up"}
<1> DEFINE P(j) == Handshake[j] = x
           i == CHOOSE j \in DOMAIN Handshake : P(j)
<1>1. \E j \in DOMAIN Handshake : P(j)
  BY HandshakeTable DEF Steps
<1>2. i \in DOMAIN Handshake /\ P(i)
  BY <1>1
<1>3. HandshakeNext(x) = Handshake[i + 1]
  BY DEF HandshakeNext
<1> HIDE DEF i
<1>4. i \in 1..6 /\ i # 6
  <2>1. Handshake[6] # x
    BY HandshakeTable DEF Steps
  <2>2. QED BY <2>1, <1>2, HandshakeTable
<1>5. i + 1 \in 1..6 /\ Handshake \in [1..6 -> Steps \cup {"up"}]
  <2>1. Handshake \in [1..Len(Handshake) -> Steps \cup {"up"}]
    BY HandshakeTable, LenProperties
  <2>2. QED BY <2>1, <1>4, HandshakeTable
<1>6. QED BY <1>3, <1>5

\* The states of the handshake.
LEMMA HandshakeStates ==
    Range(Handshake) = Steps \cup {"up"} /\ Range(Front(Handshake)) \subseteq Steps
<1>1. Range(Handshake) = Steps \cup {"up"}
  <2>1. \A j \in 1..6 : j = 1 \/ j = 2 \/ j = 3 \/ j = 4 \/ j = 5 \/ j = 6
    OBVIOUS
  <2>2. \A j \in 1..6 : Handshake[j] \in Steps \cup {"up"}
    BY <2>1, HandshakeTable DEF Steps
  <2>3. \A x \in Steps \cup {"up"} : \E j \in 1..6 : Handshake[j] = x
    BY HandshakeTable DEF Steps
  <2>4. QED BY <2>2, <2>3, HandshakeTable DEF Range
<1>2. Range(Front(Handshake)) \subseteq Steps
  <2> DEFINE h == Handshake
             g == SubSeq(h, 1, 5)
             T == Steps \cup {"up"}
  <2>1. Front(h) = g
    <3>1. Len(h) - 1 = 5
      BY HandshakeTable
    <3>2. QED BY <3>1 DEF Front
  <2>2. g \in Seq(T) /\ Len(g) = 5 /\ \A i \in 1..5 : g[i] = h[1 + i - 1]
    <3> DEFINE o == 1
               p == 5
    <3>1. h \in Seq(T) /\ o \in 1..Len(h) /\ p \in 1..Len(h) /\ o <= p /\ p - o + 1 = 5
      BY HandshakeTable
    <3> HIDE DEF h, T, o, p
    <3>2. /\ SubSeq(h, o, p) \in Seq(T)
          /\ Len(SubSeq(h, o, p)) = IF o <= p THEN p - o + 1 ELSE 0
          /\ \A i \in 1..(p - o + 1) : SubSeq(h, o, p)[i] = h[o + i - 1]
      BY <3>1, SubSeqProperties
    <3>3. SubSeq(h, o, p) = SubSeq(h, 1, 5)
      BY DEF o, p
    <3>4. QED BY <3>1, <3>2, <3>3 DEF o
  <2>3. \A i \in 1..5 : g[i] \in Steps
    <3>1. \A i \in 1..5 : 1 + i - 1 = i /\ (i = 1 \/ i = 2 \/ i = 3 \/ i = 4 \/ i = 5)
      OBVIOUS
    <3>2. \A i \in 1..5 : h[i] \in Steps
      BY <3>1, HandshakeTable DEF Steps
    <3> HIDE DEF g
    <3>3. QED BY <3>1, <3>2, <2>2
  <2>4. DOMAIN g = 1..5
    BY <2>2, LenProperties
  <2> HIDE DEF g
  <2>5. QED BY <2>1, <2>3, <2>4 DEF Range
<1>3. QED BY <1>1, <1>2

\* The handshake starts, or takes a step that is not its last.
LEMMA StepKeeps ==
    ASSUME NEW s, NEW e, SystemOK(s, e), s.jobs = <<>>, s.sk.state \in Steps \cup {"connecting"},
           NEW x \in Steps
    PROVE  SystemOK(Push([s EXCEPT !.sk.state = x], "control"), e)
<1> DEFINE l == <<"control">> \o s.jobs
           t == [s EXCEPT !.sk.state = x, !.jobs = l]
<1>1. /\ s \in Systems /\ SkOK(s) /\ s.sk \in Connections
  BY DEF SystemOK, Systems
<1>2. l = <<"control">> /\ l \in JobLists
  BY PushJobs DEF JobLists
<1>3. Push([s EXCEPT !.sk.state = x], "control") = t
  BY <1>1 DEF Push, Systems, Connections
<1> HIDE DEF l, t
<1>4. /\ t \in Systems /\ t.c = s.c /\ t.pcb = s.pcb /\ t.call = s.call /\ t.wild = s.wild
      /\ t.up = s.up /\ t.down = s.down /\ t.jobs = l
      /\ t.sk.state = x /\ t.sk.send = s.sk.send /\ t.sk.recv = s.sk.recv
  BY <1>1, <1>2 DEF Systems, Connections, t
<1>5. s.sk.state \notin {"none", "freed", "up"} /\ x \notin {"none", "freed", "up"}
  BY DEF Steps
<1>6. HasSocks(s) /\ ~s.c.socks_up
  BY <1>1, <1>5 DEF SkOK
<1>7. (HasPcb(t) <=> HasPcb(s)) /\ HasSocks(t)
  BY <1>4, <1>6 DEF HasPcb, HasSocks
<1>8. SkOK(t)
  <2>1. t.jobs \notin {<<"connected">>, <<"send">>, <<"recv">>, <<"send", "recv">>, <<"recv", "send">>}
    BY <1>2, <1>4, JobsDiffer
  <2>2. s.c.socks_up = t.c.socks_up /\ s.sk.send # "busy" /\ s.sk.recv # "busy"
    BY <1>1, <1>4, <1>6 DEF SkOK
  <2>3. QED BY <2>1, <2>2, <1>4, <1>5, <1>6, <1>7 DEF SkOK
<1>9. ReadOK(t)
  BY <1>4, <1>6, <1>7 DEF SystemOK, ReadOK
<1>10. DeadOK(t) /\ ClientOK(t) /\ PcbOK(t) /\ WndOK(t) /\ PendingOK(t) /\ ~t.wild
  BY <1>4, <1>6, <1>7 DEF SystemOK, DeadOK, ClientOK, PcbOK, WndOK, PendingOK
<1>11. UpOK(t, e) /\ DownOK(t, e) /\ EndOK(t, e)
  BY <1>4, <1>6, <1>7 DEF SystemOK, UpOK, DownOK, EndOK
<1>12. SystemOK(t, e)
  BY <1>4, <1>8, <1>9, <1>10, <1>11 DEF SystemOK
<1>13. QED BY <1>3, <1>12

\* BSOCKSCLIENT_EVENT_UP.
LEMMA UpKeeps ==
    ASSUME NEW s, NEW e, SystemOK(s, e), s.jobs = <<>>, s.sk.state \in Steps
    PROVE  SystemOK(SocksUp([s EXCEPT !.sk.state = "up"]), e)
<1> DEFINE x == [s EXCEPT !.sk.state = "up"]
           t == [x EXCEPT !.c.socks_up = TRUE, !.pcb.sent = @ \/ ~x.c.client_closed]
           u == IF t.c.buf # <<>> THEN client_send_to_socks(t) ELSE t
           v == client_socks_recv_initiate(u)
           w == IF u.c.client_closed THEN u ELSE v
<1>1. /\ s \in Systems /\ s.c \in Clients /\ s.pcb \in Pcbs /\ s.sk \in Connections
      /\ s.c.client_closed \in BOOLEAN /\ s.pcb.sent \in BOOLEAN /\ e \in Envs
  BY DEF SystemOK, Systems, Clients, Pcbs
<1>2. /\ DeadOK(s) /\ ClientOK(s) /\ PcbOK(s) /\ SkOK(s) /\ WndOK(s) /\ PendingOK(s) /\ ReadOK(s)
      /\ UpOK(s, e) /\ DownOK(s, e) /\ EndOK(s, e) /\ ~s.wild
  BY DEF SystemOK
<1>3. HasSocks(s) /\ s.c.live /\ ~s.c.socks_closed /\ ~s.c.socks_up
      /\ s.sk.send = "ready" /\ s.sk.recv = "ready" /\ s.c.rbuf = <<>>
  <2>1. s.sk.state \notin {"none", "freed", "up"}
    BY DEF Steps
  <2>2. HasSocks(s) /\ ~s.c.socks_up
    BY <2>1, <1>2 DEF SkOK
  <2>3. s.sk.send # "busy" /\ s.sk.recv # "busy"
    BY <2>2, <1>2 DEF SkOK
  <2>4. QED BY <2>2, <2>3, <1>1, <1>2 DEF HasSocks, Connections, PendingOK
<1>4. /\ x \in Systems /\ x.c = s.c /\ x.pcb = s.pcb /\ x.jobs = s.jobs /\ x.call = s.call
      /\ x.wild = s.wild /\ x.up = s.up /\ x.down = s.down
      /\ x.sk.state = "up" /\ x.sk.send = s.sk.send /\ x.sk.recv = s.sk.recv
  BY <1>1 DEF Systems, Connections
<1> DEFINE b == s.pcb.sent \/ ~s.c.client_closed
<1>5. t = [x EXCEPT !.c.socks_up = TRUE, !.pcb.sent = b] /\ b \in BOOLEAN
  BY <1>1, <1>4 DEF Systems
<1> HIDE DEF x, t, b
<1>6. /\ t \in Systems /\ t.c = [s.c EXCEPT !.socks_up = TRUE] /\ t.pcb = [s.pcb EXCEPT !.sent = b]
      /\ t.sk = x.sk /\ t.jobs = <<>> /\ t.call = s.call /\ ~t.wild
      /\ t.up = s.up /\ t.down = s.down
  BY <1>2, <1>4, <1>5 DEF Systems, Clients, Pcbs
<1>7. /\ t.c.live /\ t.c.aborted = s.c.aborted /\ t.c.dead = s.c.dead
      /\ t.c.client_closed = s.c.client_closed /\ t.c.buf = s.c.buf
      /\ t.c.socks_up /\ ~t.c.socks_closed
      /\ t.c.rbuf = <<>> /\ t.c.rsent = s.c.rsent /\ t.c.pending = s.c.pending
      /\ t.c.waiting = s.c.waiting
  BY <1>1, <1>3, <1>6 DEF Clients
<1>8. /\ t.pcb.state = s.pcb.state /\ t.pcb.unacked = s.pcb.unacked /\ t.pcb.end = s.pcb.end
      /\ t.pcb.recv = s.pcb.recv /\ t.pcb.sent = b /\ t.pcb.err = s.pcb.err
      /\ t.pcb.refused = s.pcb.refused /\ t.pcb.wnd = s.pcb.wnd
  BY <1>1, <1>6 DEF Pcbs
<1>9. (HasPcb(t) <=> HasPcb(s)) /\ HasSocks(t) /\ (HasPcb(s) <=> ~s.c.client_closed)
  BY <1>3, <1>7 DEF HasPcb, HasSocks
<1>10. DeadOK(t)
  BY <1>2, <1>3, <1>6, <1>7 DEF DeadOK
<1>11. ClientOK(t)
  BY <1>2, <1>7 DEF ClientOK
<1>12. PcbOK(t)
  <2>1. b <=> HasPcb(s)
    <3>1. s.pcb.sent => FALSE
      BY <1>2, <1>3 DEF PcbOK
    <3>2. QED BY <3>1, <1>9 DEF b
  <2>2. QED BY <2>1, <1>2, <1>3, <1>7, <1>8, <1>9 DEF PcbOK
<1>13. WndOK(t) /\ PendingOK(t)
  BY <1>2, <1>3, <1>7, <1>8, <1>9 DEF WndOK, PendingOK
<1>14. UpOK(t, e) /\ EndOK(t, e)
  BY <1>2, <1>3, <1>6, <1>7, <1>8, <1>9 DEF UpOK, EndOK
<1>15. DownOK(t, e)
  BY <1>2, <1>3, <1>6, <1>7, <1>9 DEF DownOK
<1>16. /\ u \in Systems /\ u.c = t.c /\ u.pcb = t.pcb /\ u.call = t.call /\ ~u.wild
       /\ u.up = t.up /\ u.down = t.down /\ u.sk.state = "up" /\ u.sk.recv = "ready"
       /\ u.sk.send = (IF t.c.buf # <<>> THEN "busy" ELSE "ready")
       /\ u.jobs = (IF t.c.buf # <<>> THEN <<"send">> ELSE <<>>)
  <2>1. CASE t.c.buf # <<>>
    <3>1. u = client_send_to_socks(t)
      BY <2>1
    <3> HIDE DEF u
    <3>2. t \in Systems /\ t.jobs \in {<<>>, <<"recv">>}
      BY <1>6
    <3>3. /\ Started(u, t) /\ u.sk.send = "busy" /\ u.sk.recv = t.sk.recv
          /\ (u.jobs = <<"send">> <=> t.jobs = <<>>)
      BY <3>1, <3>2, SendStarted
    <3>4. QED BY <3>3, <2>1, <1>3, <1>4, <1>6 DEF Started, Beside
  <2>2. CASE t.c.buf = <<>>
    BY <2>2, <1>3, <1>4, <1>6
  <2>3. QED BY <2>1, <2>2
<1> HIDE DEF u
<1>17. /\ w \in Systems /\ w.c = t.c /\ w.pcb = t.pcb /\ w.call = t.call /\ ~w.wild
       /\ w.up = t.up /\ w.down = t.down /\ w.sk.state = "up" /\ w.sk.send = u.sk.send
       /\ w.sk.recv = (IF t.c.client_closed THEN "ready" ELSE "busy")
       /\ w.jobs \in {<<>>, <<"send">>, <<"recv">>, <<"recv", "send">>}
       /\ (w.jobs \in {<<"send">>, <<"recv", "send">>} => u.jobs = <<"send">>)
       /\ (w.jobs \in {<<"recv">>, <<"recv", "send">>} => ~t.c.client_closed)
  <2>1. CASE t.c.client_closed
    <3>1. w = u
      BY <2>1, <1>16
    <3> HIDE DEF w
    <3>2. u.jobs \in {<<>>, <<"send">>}
      BY <1>16
    <3>3. QED BY <3>1, <3>2, <2>1, <1>16, JobsDiffer
  <2>2. CASE ~t.c.client_closed
    <3>1. w = v
      BY <2>2, <1>16
    <3>2. u \in Systems /\ u.jobs \in {<<>>, <<"send">>}
      BY <1>16
    <3>3. /\ Started(v, u) /\ v.sk.recv = "busy" /\ v.sk.send = u.sk.send
          /\ v.jobs \in {<<"recv">>, <<"recv", "send">>} /\ (v.jobs = <<"recv">> <=> u.jobs = <<>>)
      BY <3>2, ReadStarted
    <3> HIDE DEF v, w
    <3>4. v.jobs \in {<<"send">>, <<"recv", "send">>} => u.jobs = <<"send">>
      BY <3>2, <3>3, JobsDiffer
    <3>5. QED BY <3>1, <3>3, <3>4, <2>2, <1>16 DEF Started, Beside
  <2>3. QED BY <2>1, <2>2
<1> HIDE DEF w
<1>18. (HasPcb(w) <=> HasPcb(t)) /\ HasSocks(w)
  BY <1>9, <1>17 DEF HasPcb, HasSocks
<1>19. SkOK(w)
  <2>1. w.jobs \notin {<<"connected">>, <<"control">>, <<"send", "recv">>}
    BY <1>17, JobsDiffer
  <2>2. w.sk.send = "busy" <=> t.c.buf # <<>>
    BY <1>16, <1>17
  <2>3. u.jobs = <<"send">> => w.sk.send = "busy"
    BY <1>16, <1>17, JobsDiffer
  <2>4. QED BY <2>1, <2>2, <2>3, <1>7, <1>17, <1>18 DEF SkOK
<1>20. ReadOK(w)
  <2>1. HasPcb(t) => t.c.rsent = 0
    BY <1>2, <1>3, <1>7, <1>9 DEF ReadOK
  <2>2. HasPcb(t) => w.sk.recv = "busy"
    BY <1>17 DEF HasPcb
  <2>3. QED BY <2>1, <2>2, <1>7, <1>17, <1>18 DEF ReadOK
<1>21. DeadOK(w) /\ ClientOK(w) /\ PcbOK(w) /\ WndOK(w) /\ PendingOK(w)
  BY <1>9, <1>10, <1>11, <1>12, <1>13, <1>17, <1>18 DEF DeadOK, ClientOK, PcbOK, WndOK, PendingOK
<1>22. UpOK(w, e) /\ DownOK(w, e) /\ EndOK(w, e)
  BY <1>9, <1>14, <1>15, <1>17, <1>18 DEF UpOK, DownOK, EndOK
<1>23. SystemOK(w, e)
  BY <1>1, <1>17, <1>19, <1>20, <1>21, <1>22 DEF SystemOK
<1>24. SocksUp(x) = w
  BY DEF SocksUp, w, v, u, t
<1>25. QED BY <1>23, <1>24 DEF x

\* recv_handler_done and send_handler_done of BSocksClient.c.
LEMMA HandshakeKeeps ==
    ASSUME NEW s, NEW e, SystemOK(s, e), s.jobs = <<>>, s.sk.state \in Steps
    PROVE  SystemOK(HandshakeStep(s), e)
<1> DEFINE x == HandshakeNext(s.sk.state)
           t == [s EXCEPT !.sk.state = x]
<1>1. x \in Steps \cup {"up"}
  BY HandshakeGoesOn
<1>2. s \in Systems
  BY DEF SystemOK
<1> HIDE DEF x
<1>3. t.sk.state = x
  BY <1>1, <1>2 DEF Systems, Connections
<1>4. HandshakeStep(s) = IF x = "up" THEN SocksUp(t) ELSE Push(t, "control")
  <2>1. [s EXCEPT !.sk.state = HandshakeNext(@)] = t
    BY <1>2 DEF x, Systems, Connections
  <2>2. QED BY <2>1, <1>3 DEF HandshakeStep
<1>5. CASE x = "up"
  BY <1>4, <1>5, UpKeeps
<1>6. CASE x # "up"
  <2>1. x \in Steps
    BY <1>1, <1>6
  <2>2. QED BY <2>1, <1>4, <1>6, StepKeeps
<1>7. QED BY <1>5, <1>6
------------------------------------------------------------------------------
(* The other events *)

\* DEAD_ENTER keeps the client in order.
LEMMA EnterKeeps ==
    ASSUME NEW s, NEW e, SystemOK(s, e), HasPcb(s), NEW fn \in {"accept", "recv", "sent"}
    PROVE  SystemOK(Enter(s, fn), e)
<1> DEFINE t == Enter(s, fn)
<1>1. s \in Systems /\ ~s.c.aborted /\ s.c.live
  BY DEF SystemOK, ClientOK, HasPcb
<1>2. /\ t \in Systems /\ Beside(t, s) /\ t.pcb = s.pcb /\ t.sk = s.sk /\ t.jobs = s.jobs /\ DeadOK(t)
      /\ KeepsBuffers(t, s) /\ t.c.client_closed = s.c.client_closed
      /\ t.c.socks_closed = s.c.socks_closed /\ t.c.aborted = s.c.aborted
  BY <1>1, EnterFields, ZenonT(60)
<1> HIDE DEF t
<1>3. (HasPcb(t) <=> HasPcb(s)) /\ (HasSocks(t) <=> HasSocks(s)) /\ t.c.live
  BY <1>1, <1>2 DEF HasPcb, HasSocks, KeepsBuffers
<1>4. ClientOK(t) /\ PcbOK(t) /\ SkOK(t)
  BY <1>1, <1>2, <1>3 DEF SystemOK, ClientOK, PcbOK, SkOK, KeepsBuffers
<1>5. WndOK(t) /\ PendingOK(t) /\ ReadOK(t) /\ ~t.wild
  BY <1>2, <1>3 DEF SystemOK, WndOK, PendingOK, ReadOK, KeepsBuffers, Beside
<1>6. UpOK(t, e) /\ DownOK(t, e) /\ EndOK(t, e)
  BY <1>1, <1>2, <1>3 DEF SystemOK, UpOK, DownOK, EndOK, KeepsBuffers, Beside
<1>7. SystemOK(t, e)
  BY <1>2, <1>4, <1>5, <1>6 DEF SystemOK
<1>8. QED BY <1>7 DEF t

\* lwIP notes the FIN of the application.
LEMMA CloseWaitKeeps ==
    ASSUME NEW s, NEW e, SystemOK(s, e), s.pcb.state = "established"
    PROVE  SystemOK([s EXCEPT !.pcb.state = "close_wait"], e) /\ HasPcb([s EXCEPT !.pcb.state = "close_wait"])
           /\ (HasSocks([s EXCEPT !.pcb.state = "close_wait"]) <=> HasSocks(s)) /\ ~e.fin
<1> DEFINE t == [s EXCEPT !.pcb.state = "close_wait"]
<1>1. s \in Systems /\ s.pcb \in Pcbs
  BY DEF SystemOK, Systems
<1>2. /\ t \in Systems /\ t.c = s.c /\ t.sk = s.sk /\ t.jobs = s.jobs /\ t.call = s.call
      /\ t.wild = s.wild /\ t.up = s.up /\ t.down = s.down
      /\ t.pcb = [s.pcb EXCEPT !.state = "close_wait"]
  BY <1>1 DEF Systems, Pcbs, PcbOpen
<1> HIDE DEF t
<1>3. /\ t.pcb.state = "close_wait" /\ t.pcb.unacked = s.pcb.unacked /\ t.pcb.end = s.pcb.end
      /\ t.pcb.recv = s.pcb.recv /\ t.pcb.sent = s.pcb.sent /\ t.pcb.err = s.pcb.err
      /\ t.pcb.refused = s.pcb.refused /\ t.pcb.wnd = s.pcb.wnd
  BY <1>1, <1>2 DEF Pcbs
<1>4. HasPcb(s) /\ HasPcb(t) /\ (HasSocks(t) <=> HasSocks(s))
  BY <1>2 DEF SystemOK, PcbOK, HasPcb, HasSocks, PcbOpen
<1>5. DeadOK(t) /\ ClientOK(t) /\ SkOK(t)
  BY <1>2, <1>4 DEF SystemOK, DeadOK, ClientOK, SkOK
<1>6. PcbOK(t)
  BY <1>2, <1>3, <1>4 DEF SystemOK, PcbOK, PcbOpen
<1>7. WndOK(t) /\ PendingOK(t) /\ ReadOK(t) /\ ~t.wild
  BY <1>2, <1>3, <1>4 DEF SystemOK, WndOK, PendingOK, ReadOK
<1>8. UpOK(t, e) /\ DownOK(t, e) /\ EndOK(t, e) /\ ~e.fin
  BY <1>2, <1>3, <1>4 DEF SystemOK, UpOK, DownOK, EndOK
<1>9. SystemOK(t, e)
  BY <1>2, <1>5, <1>6, <1>7, <1>8 DEF SystemOK
<1>10. QED BY <1>4, <1>8, <1>9 DEF t

\* client_err_func: lwIP has dropped the pcb.
LEMMA ErrKeeps ==
    ASSUME NEW s, NEW e, SystemOK(s, e), s.pcb.state \in PcbOpen
    PROVE  /\ s.pcb.err
           /\ SystemOK(client_handle_freed_client(
                  [CallbacksRemoved(s) EXCEPT !.pcb.state = "freed", !.pcb.end = "rst"]), e)
<1> DEFINE u == [CallbacksRemoved(s) EXCEPT !.pcb.state = "freed", !.pcb.end = "rst"]
           t == client_handle_freed_client(u)
<1>1. HasPcb(s) /\ s.pcb.err /\ s \in Systems /\ s.pcb \in Pcbs /\ DeadOK(s) /\ e \in Envs /\ s.c.live
  BY DEF SystemOK, PcbOK, Systems, HasPcb
<1>2. Mid(s, e) /\ ~e.fin
  BY <1>1, OpenIsMid DEF Mid
<1>3. /\ u \in Systems /\ u.c = s.c /\ u.sk = s.sk /\ u.jobs = s.jobs /\ u.call = s.call
      /\ u.wild = s.wild /\ u.up = s.up /\ u.down = s.down
      /\ u.pcb = [s.pcb EXCEPT !.recv = FALSE, !.sent = FALSE, !.err = FALSE,
                               !.state = "freed", !.end = "rst"]
  BY <1>1 DEF CallbacksRemoved, Systems, Pcbs
<1> HIDE DEF u
<1>4. /\ NoCallbacks(u) /\ u.pcb.state = "freed" /\ u.pcb.end = "rst" /\ u.pcb.wnd = s.pcb.wnd
      /\ u.pcb.unacked = s.pcb.unacked /\ u.pcb.refused = s.pcb.refused
  BY <1>1, <1>3 DEF Pcbs, NoCallbacks
<1>5. DeadOK(u) /\ u.c.live
  BY <1>1, <1>3 DEF DeadOK
<1>6. Gone(t, u) /\ t.pcb = u.pcb
  BY <1>3, <1>4, <1>5, HandleFreed
<1> HIDE DEF t
<1>7. Gone(t, s)
  BY <1>3, <1>4, <1>6 DEF Gone, Beside, KeepsBuffers
<1>8. t.pcb.end # "fin"
  BY <1>4, <1>6
<1>9. SystemOK(t, e)
  BY <1>1, <1>2, <1>7, <1>8, GoneKeeps
<1>10. QED BY <1>1, <1>9 DEF t, u

\* client_murder.  f is the environment after the program has ended.
LEMMA MurderKeeps ==
    ASSUME NEW s, NEW e, SystemOK(s, e), s.c.live, s.jobs = <<>>, NEW f \in Envs,
           f.sent = e.sent, f.read = e.read, f.answer = e.answer, f.fin = e.fin,
           f.failed = e.failed, f.eof = e.eof, f.quit
    PROVE  SystemOK(client_murder(s), f)
<1> DEFINE a == client_abort_pcb(CallbacksRemoved(s))
           t == IF s.c.client_closed THEN s ELSE [a EXCEPT !.c.client_closed = TRUE]
           v == IF t.c.socks_closed THEN t
                ELSE [BSocksClient_Free(t) EXCEPT !.c.socks_closed = TRUE]
           z == client_dealloc(v)
<1>1. s \in Systems /\ s.pcb \in Pcbs /\ s.c \in Clients /\ DeadOK(s) /\ ~s.wild
      /\ s.c.client_closed \in BOOLEAN /\ s.c.socks_closed \in BOOLEAN /\ s.up \in Seq(Nat)
      /\ s.down \in Seq(Nat)
  BY DEF SystemOK, Systems, Clients
<1>2. /\ t \in Systems /\ DeadOK(t) /\ t.c.live /\ ~t.wild /\ t.up = s.up /\ t.down = s.down
      /\ t.c.socks_closed = s.c.socks_closed /\ t.sk = s.sk /\ t.jobs = <<>>
      /\ NoCallbacks(t) /\ t.pcb.state \notin PcbOpen \cup {"syn_rcvd"}
      /\ t.pcb.wnd = s.pcb.wnd /\ t.pcb.unacked = s.pcb.unacked /\ ~t.pcb.refused
      /\ t.pcb.end = "fin" => f.fin
  <2>1. CASE s.c.client_closed
    <3>1. ~HasPcb(s) /\ t = s
      BY <2>1 DEF HasPcb
    <3> HIDE DEF t
    <3>2. NoCallbacks(s) /\ s.pcb.state \notin PcbOpen /\ ~s.pcb.refused
      BY <3>1 DEF SystemOK, PcbOK, NoCallbacks
    <3>3. s.pcb.state # "syn_rcvd" /\ (s.pcb.end = "fin" => f.fin)
      BY DEF SystemOK, EndOK
    <3>4. QED BY <3>1, <3>2, <3>3, <1>1
  <2>2. CASE ~s.c.client_closed
    <3> DEFINE u == CallbacksRemoved(s)
    <3>1. HasPcb(s) /\ ~s.c.aborted /\ ~s.pcb.refused
      BY <2>2 DEF HasPcb, SystemOK, ClientOK, PcbOK
    <3>2. /\ u \in Systems /\ u.c = s.c /\ u.sk = s.sk /\ u.jobs = s.jobs /\ u.call = s.call
          /\ Beside(u, s)
          /\ u.pcb = [s.pcb EXCEPT !.recv = FALSE, !.sent = FALSE, !.err = FALSE]
      BY <1>1 DEF CallbacksRemoved, Systems, Pcbs, Beside
    <3> HIDE DEF u
    <3>3. DeadOK(u) /\ u.c.live /\ ~u.c.aborted
      BY <3>1, <3>2, <1>1 DEF DeadOK
    <3>4. /\ a \in Systems /\ Beside(a, u) /\ a.c = [u.c EXCEPT !.aborted = TRUE]
          /\ a.pcb = [u.pcb EXCEPT !.state = "freed", !.end = "rst"]
          /\ a.sk = u.sk /\ a.jobs = u.jobs /\ DeadOK(a)
      BY <3>2, <3>3, AbortFields DEF u
    <3>5. t = [a EXCEPT !.c.client_closed = TRUE]
      BY <2>2
    <3> HIDE DEF a, t
    <3>6. /\ t \in Systems /\ t.c = [a.c EXCEPT !.client_closed = TRUE] /\ t.pcb = a.pcb
          /\ t.sk = a.sk /\ t.jobs = a.jobs /\ t.call = a.call /\ Beside(t, a)
      BY <3>4, <3>5 DEF Systems, Clients, Beside
    <3>7. a.c \in Clients
      BY <3>4 DEF Systems
    <3>8. /\ t.c.live = a.c.live /\ t.c.aborted = a.c.aborted /\ t.c.dead = a.c.dead
          /\ t.c.socks_closed = a.c.socks_closed
      BY <3>6, <3>7 DEF Clients
    <3>9. a.c.live = s.c.live /\ a.c.socks_closed = s.c.socks_closed
      <4>1. a.c = [s.c EXCEPT !.aborted = TRUE] /\ s.c \in Clients
        BY <3>2, <3>4, <1>1
      <4>2. QED BY <4>1 DEF Clients
    <3>10. DeadOK(t)
      BY <3>4, <3>6, <3>8 DEF DeadOK
    <3>11. t.pcb = [s.pcb EXCEPT !.recv = FALSE, !.sent = FALSE, !.err = FALSE,
                                 !.state = "freed", !.end = "rst"]
      BY <3>2, <3>4, <3>6, <1>1 DEF Pcbs
    <3>12. /\ NoCallbacks(t) /\ t.pcb.state = "freed" /\ t.pcb.end = "rst"
           /\ t.pcb.wnd = s.pcb.wnd /\ t.pcb.unacked = s.pcb.unacked /\ t.pcb.refused = s.pcb.refused
      BY <3>11, <1>1 DEF Pcbs, NoCallbacks
    <3>13. "freed" \notin PcbOpen \cup {"syn_rcvd"}
      BY DEF PcbOpen
    <3>14. QED BY <3>1, <3>2, <3>4, <3>6, <3>8, <3>9, <3>10, <3>12, <3>13, <1>1 DEF Beside
  <2>3. QED BY <2>1, <2>2, <1>1
<1> HIDE DEF t
<1>3. /\ v \in Systems /\ DeadOK(v) /\ v.c.live /\ ~v.wild /\ v.up = s.up /\ v.down = s.down
      /\ v.pcb = t.pcb /\ v.jobs = <<>> /\ v.sk.send = "ready" /\ v.sk.recv = "ready"
      /\ v.sk.state \in {"none", "freed"}
  <2>1. CASE s.c.socks_closed
    <3>1. v = t
      BY <2>1, <1>2
    <3>2. s.sk.send = "ready" /\ s.sk.recv = "ready" /\ s.sk.state \in {"none", "freed"}
      BY <2>1 DEF SystemOK, SkOK, HasSocks
    <3>3. QED BY <3>1, <3>2, <1>2
  <2>2. CASE ~s.c.socks_closed
    <3>1. v = [t EXCEPT !.sk = [state |-> "freed", send |-> "ready", recv |-> "ready"],
                        !.jobs = <<>>, !.c.socks_closed = TRUE]
      BY <2>2, <1>2 DEF BSocksClient_Free, Systems
    <3> HIDE DEF v
    <3>2. /\ v \in Systems /\ v.c = [t.c EXCEPT !.socks_closed = TRUE] /\ v.pcb = t.pcb
          /\ v.sk = [state |-> "freed", send |-> "ready", recv |-> "ready"] /\ v.jobs = <<>>
          /\ v.call = t.call /\ v.wild = t.wild /\ v.up = t.up /\ v.down = t.down
      BY <3>1, <1>2 DEF Systems, Clients, Connections, JobLists
    <3>3. t.c \in Clients
      BY <1>2 DEF Systems
    <3>4. v.c.live = t.c.live /\ v.c.dead = t.c.dead /\ v.c.aborted = t.c.aborted
      BY <3>2, <3>3 DEF Clients
    <3>5. DeadOK(v)
      BY <3>2, <3>4, <1>2 DEF DeadOK
    <3>6. QED BY <3>2, <3>4, <3>5, <1>2
  <2>3. QED BY <2>1, <2>2, <1>1
<1> HIDE DEF v
<1>4. /\ z \in Systems /\ Beside(z, v) /\ z.c = NoClient /\ z.pcb = v.pcb /\ z.sk = v.sk
      /\ z.jobs = v.jobs /\ DeadOK(z)
  BY <1>3, DeallocFields
<1> HIDE DEF z
<1>5. /\ ~z.c.live /\ ~z.c.aborted /\ z.c.buf = <<>> /\ ~z.c.socks_up
      /\ z.c.rbuf = <<>> /\ z.c.pending = 0
  BY <1>4 DEF NoClient
<1>6. ~HasPcb(z) /\ ~HasSocks(z)
  BY <1>5 DEF HasPcb, HasSocks
<1>7. ClientOK(z)
  BY <1>4, <1>5 DEF ClientOK
<1>8. PcbOK(z)
  BY <1>2, <1>3, <1>4, <1>6 DEF PcbOK, NoCallbacks
<1>9. SkOK(z)
  BY <1>3, <1>4, <1>6 DEF SkOK
<1>10. WndOK(z) /\ PendingOK(z) /\ ReadOK(z)
  <2>1. Len(z.c.buf) = 0
    BY <1>5
  <2>2. s.pcb.wnd <= Wnd /\ s.pcb.unacked <= SndBuf
    BY DEF SystemOK, WndOK, PendingOK
  <2>3. QED BY <2>1, <2>2, <1>2, <1>3, <1>4, <1>5, <1>6, SizesAssumption DEF WndOK, PendingOK, ReadOK
<1>11. z.up = s.up /\ z.down = s.down /\ ~z.wild
  BY <1>3, <1>4 DEF Beside
<1>12. UpOK(z, f)
  BY <1>5, <1>6, <1>11 DEF SystemOK, UpOK
<1>13. DownOK(z, f)
  BY <1>5, <1>6, <1>11 DEF SystemOK, DownOK
<1>14. EndOK(z, f)
  BY <1>2, <1>3, <1>4, <1>5, <1>6 DEF EndOK
<1>15. SystemOK(z, f)
  BY <1>4, <1>7, <1>8, <1>9, <1>10, <1>11, <1>12, <1>13, <1>14 DEF SystemOK
<1>16. client_murder(s) = z
  BY DEF client_murder, z, v, t
<1>17. QED BY <1>15, <1>16

\* DEAD_LEAVE2.
LEMMA ReturnKeeps ==
    ASSUME NEW s, NEW e, SystemOK(s, e), s.call.fn # "none"
    PROVE  SystemOK([s EXCEPT !.call = NoCall,
                        !.c.dead = IF ~s.c.live \/ s.call.killed = 0 THEN "null" ELSE "stale"], e)
<1> DEFINE x == IF ~s.c.live \/ s.call.killed = 0 THEN "null" ELSE "stale"
           t == [s EXCEPT !.call = NoCall, !.c.dead = x]
<1>1. s \in Systems /\ s.c \in Clients /\ DeadOK(s) /\ ClientOK(s)
  BY DEF SystemOK, Systems
<1>2. x \in {"null", "frame", "stale"} /\ (x = "stale" => s.c.live /\ s.c.aborted) /\ (x = "null" \/ x = "stale")
  BY <1>1 DEF DeadOK
<1>3. NoCall \in Calls /\ NoCall.fn = "none"
  <2>1. 0 \in -1..1
    OBVIOUS
  <2>2. QED BY <2>1 DEF NoCall, Calls
<1> HIDE DEF x
<1>4. /\ t \in Systems /\ t.c = [s.c EXCEPT !.dead = x] /\ t.pcb = s.pcb /\ t.sk = s.sk
      /\ t.jobs = s.jobs /\ t.call = NoCall /\ t.wild = s.wild /\ t.up = s.up /\ t.down = s.down
  BY <1>1, <1>2, <1>3 DEF Systems, Clients
<1> HIDE DEF t
<1>5. /\ KeepsBuffers(t, s) /\ t.c.client_closed = s.c.client_closed /\ t.c.dead = x
      /\ t.c.socks_closed = s.c.socks_closed /\ t.c.aborted = s.c.aborted
  BY <1>1, <1>4 DEF Clients, KeepsBuffers
<1>6. (HasPcb(t) <=> HasPcb(s)) /\ (HasSocks(t) <=> HasSocks(s)) /\ t.c.live = s.c.live
  BY <1>5 DEF HasPcb, HasSocks, KeepsBuffers
<1>7. DeadOK(t)
  BY <1>2, <1>3, <1>4, <1>5 DEF DeadOK
<1>8. ClientOK(t)
  <2>1. ASSUME ~t.c.live PROVE t.c = NoClient
    <3>1. s.c = NoClient /\ x = "null"
      BY <2>1, <1>1, <1>2, <1>6 DEF ClientOK
    <3>2. [NoClient EXCEPT !.dead = "null"] = NoClient
      BY DEF NoClient
    <3>3. QED BY <3>1, <3>2, <1>4
  <2>2. QED BY <2>1, <1>1, <1>5, <1>6 DEF ClientOK
<1>9. PcbOK(t) /\ SkOK(t)
  BY <1>4, <1>5, <1>6 DEF SystemOK, PcbOK, SkOK, KeepsBuffers
<1>10. WndOK(t) /\ PendingOK(t) /\ ReadOK(t) /\ ~t.wild
  BY <1>4, <1>5, <1>6 DEF SystemOK, WndOK, PendingOK, ReadOK, KeepsBuffers
<1>11. UpOK(t, e) /\ DownOK(t, e) /\ EndOK(t, e)
  BY <1>4, <1>5, <1>6 DEF SystemOK, UpOK, DownOK, EndOK, KeepsBuffers
<1>12. SystemOK(t, e)
  BY <1>4, <1>7, <1>8, <1>9, <1>10, <1>11 DEF SystemOK
<1>13. QED BY <1>12 DEF t, x

\* The empty run.
LEMMA NoBytes == Run(0, 0) = <<>> /\ Len(<<>>) = 0
<1>1. Run(0, 0) = <<>> <=> 0 = 0
  <2> DEFINE o == 0
  <2>1. o \in Nat
    OBVIOUS
  <2> HIDE DEF o
  <2>2. Run(o, o) = <<>> <=> o = 0
    BY ONLY <2>1, RunSeq
  <2>3. QED BY <2>2 DEF o
<1>2. QED BY <1>1

\* listener_accept_func, up to the jobs: the client is there.
LEMMA AcceptKeeps ==
    ASSUME NEW s, NEW e, SystemOK(s, e), s.jobs = <<>>, s.pcb.state = "syn_rcvd"
    PROVE  LET x == [s EXCEPT !.c = [NoClient EXCEPT !.live = TRUE], !.sk.state = "connecting",
                              !.pcb.state = "established", !.pcb.recv = TRUE, !.pcb.err = TRUE]
           IN  /\ SystemOK(Enter(x, "accept"), e) /\ SystemOK(Push(Enter(x, "accept"), "connected"), e)
               /\ SystemOK([s EXCEPT !.pcb.state = "freed", !.pcb.end = "rst"], e)
<1> DEFINE g == [NoClient EXCEPT !.live = TRUE]
           x == [s EXCEPT !.c = g, !.sk.state = "connecting",
                          !.pcb.state = "established", !.pcb.recv = TRUE, !.pcb.err = TRUE]
           y == Enter(x, "accept")
           z == Push(y, "connected")
           d == [s EXCEPT !.pcb.state = "freed", !.pcb.end = "rst"]
<1>1. /\ s \in Systems /\ s.pcb \in Pcbs /\ s.sk \in Connections /\ e \in Envs
      /\ s.up \in Seq(Nat) /\ s.down \in Seq(Nat) /\ s.c \in Clients
  BY DEF SystemOK, Systems
<1>2. /\ DeadOK(s) /\ ClientOK(s) /\ PcbOK(s) /\ SkOK(s) /\ WndOK(s) /\ PendingOK(s) /\ ReadOK(s)
      /\ UpOK(s, e) /\ DownOK(s, e) /\ EndOK(s, e) /\ ~s.wild
  BY DEF SystemOK
<1>3. /\ ~s.c.live /\ s.pcb.wnd = Wnd /\ s.pcb.unacked = 0 /\ s.pcb.end = "none"
      /\ e.sent = 0 /\ e.read = 0 /\ ~e.fin
  BY <1>2 DEF EndOK
<1>4. ~HasPcb(s) /\ ~HasSocks(s)
  BY <1>3 DEF HasPcb, HasSocks
<1>5. ~s.pcb.sent /\ ~s.pcb.refused /\ s.sk.send = "ready" /\ s.sk.recv = "ready"
  BY <1>2, <1>4 DEF PcbOK, SkOK
<1>6. Len(s.up) = 0 /\ Len(s.down) = 0 /\ s.up = <<>> /\ s.down = <<>>
  <2>1. Len(s.up) \in Nat /\ Len(s.down) \in Nat /\ Len(s.up) <= 0 /\ Len(s.down) <= 0
    BY <1>1, <1>2, <1>3, LenProperties DEF UpOK, DownOK
  <2>2. Len(s.up) = 0 /\ Len(s.down) = 0
    BY <2>1
  <2>3. QED BY <2>2, <1>1, EmptySeq
<1>7. /\ g \in Clients /\ g.live /\ ~g.aborted /\ g.dead = "null" /\ ~g.client_closed /\ g.buf = <<>>
      /\ ~g.socks_up /\ ~g.socks_closed /\ g.rbuf = <<>> /\ g.rsent = 0 /\ g.pending = 0
  <2>1. NoClient \in Clients
    BY DEF NoClient, Clients
  <2>2. QED BY <2>1 DEF NoClient, Clients
<1> HIDE DEF g
<1>8. /\ x \in Systems /\ x.c = g /\ x.jobs = <<>> /\ x.call = s.call /\ ~x.wild /\ x.up = <<>>
      /\ x.down = <<>> /\ x.sk = [s.sk EXCEPT !.state = "connecting"]
      /\ x.pcb = [s.pcb EXCEPT !.state = "established", !.recv = TRUE, !.err = TRUE]
  BY <1>1, <1>2, <1>6, <1>7 DEF Systems, Pcbs, Connections, PcbOpen
<1> HIDE DEF x
<1>9. /\ x.pcb.state = "established" /\ x.pcb.recv /\ x.pcb.err /\ ~x.pcb.sent /\ ~x.pcb.refused
      /\ x.pcb.wnd = Wnd /\ x.pcb.unacked = 0 /\ x.pcb.end = "none"
      /\ x.sk.state = "connecting" /\ x.sk.send = "ready" /\ x.sk.recv = "ready"
  BY <1>1, <1>3, <1>5, <1>8 DEF Pcbs, Connections
<1>10. /\ y \in Systems /\ Beside(y, x) /\ y.pcb = x.pcb /\ y.sk = x.sk /\ y.jobs = <<>> /\ DeadOK(y)
       /\ KeepsBuffers(y, x) /\ y.c.client_closed = x.c.client_closed
       /\ y.c.socks_closed = x.c.socks_closed /\ y.c.aborted = x.c.aborted
  <2>1. "accept" \in {"accept", "recv", "sent"} /\ ~x.c.aborted
    BY <1>7, <1>8
  <2>2. QED BY <2>1, <1>8, EnterFields
<1> HIDE DEF y
<1>11. /\ y.c.live /\ ~y.c.aborted /\ ~y.c.client_closed /\ y.c.buf = <<>>
       /\ ~y.c.socks_up /\ ~y.c.socks_closed /\ y.c.rbuf = <<>> /\ y.c.rsent = 0 /\ y.c.pending = 0
       /\ y.up = <<>> /\ y.down = <<>> /\ ~y.wild
  BY <1>7, <1>8, <1>10 DEF KeepsBuffers, Beside
<1>12. HasPcb(y) /\ HasSocks(y)
  BY <1>11 DEF HasPcb, HasSocks
<1>13. ClientOK(y)
  BY <1>11 DEF ClientOK
<1>14. PcbOK(y)
  BY <1>9, <1>10, <1>11, <1>12 DEF PcbOK, PcbOpen
<1>15. SkOK(y)
  BY <1>9, <1>10, <1>11, <1>12, JobsDiffer DEF SkOK
<1>16. WndOK(y) /\ PendingOK(y) /\ ReadOK(y)
  <2>1. Len(y.c.buf) = 0 /\ Wnd <= Wnd /\ 0 <= Wnd /\ Wnd + 0 = Wnd /\ 0 <= SndBuf
    BY <1>11, SizesAssumption
  <2>2. QED BY <2>1, <1>9, <1>10, <1>11 DEF WndOK, PendingOK, ReadOK
<1>17. UpOK(y, e) /\ DownOK(y, e)
  <2>1. Len(y.up) = 0 /\ Len(y.down) = 0 /\ Len(y.c.buf) = 0 /\ Len(y.c.rbuf) = 0
    BY <1>11
  <2>2. 0 + 0 = 0 /\ 0 - 0 = 0 /\ 0 <= 0 /\ 0 <= RecvBuf /\ e.read <= e.answer
    BY <1>2, SizesAssumption DEF DownOK
  <2>3. QED BY <2>1, <2>2, <1>3, <1>11, NoBytes DEF UpOK, DownOK
<1>18. EndOK(y, e)
  BY <1>3, <1>9, <1>10, <1>12 DEF EndOK
<1>19. SystemOK(y, e)
  BY <1>1, <1>10, <1>11, <1>13, <1>14, <1>15, <1>16, <1>17, <1>18 DEF SystemOK
<1>20. SystemOK(z, e)
  <2> DEFINE l == <<"connected">> \o y.jobs
  <2>1. l = <<"connected">> /\ l \in JobLists
    BY <1>10, PushJobs DEF JobLists
  <2>2. z = [y EXCEPT !.jobs = l]
    BY DEF Push
  <2> HIDE DEF l, z
  <2>3. /\ z \in Systems /\ z.c = y.c /\ z.pcb = y.pcb /\ z.sk = y.sk /\ z.call = y.call
        /\ z.wild = y.wild /\ z.up = y.up /\ z.down = y.down /\ z.jobs = <<"connected">>
    BY <2>1, <2>2, <1>10 DEF Systems
  <2>4. HasPcb(z) /\ HasSocks(z)
    BY <2>3, <1>12 DEF HasPcb, HasSocks
  <2>5. SkOK(z)
    <3>1. z.jobs \notin {<<"control">>, <<"send">>, <<"recv">>, <<"send", "recv">>, <<"recv", "send">>}
      BY <2>3, JobsDiffer
    <3>2. QED BY <3>1, <2>3, <2>4, <1>9, <1>10, <1>11 DEF SkOK
  <2>6. /\ DeadOK(z) /\ ClientOK(z) /\ PcbOK(z) /\ WndOK(z) /\ PendingOK(z) /\ ReadOK(z) /\ ~z.wild
    BY <2>3, <2>4, <1>10, <1>11, <1>12, <1>13, <1>14, <1>16
    DEF DeadOK, ClientOK, PcbOK, WndOK, PendingOK, ReadOK
  <2>7. UpOK(z, e) /\ DownOK(z, e) /\ EndOK(z, e)
    BY <2>3, <2>4, <1>12, <1>17, <1>18 DEF UpOK, DownOK, EndOK
  <2>8. QED BY <2>3, <2>5, <2>6, <2>7, <1>1 DEF SystemOK
<1>21. SystemOK(d, e)
  <2>1. /\ d \in Systems /\ d.c = s.c /\ d.sk = s.sk /\ d.jobs = s.jobs /\ d.call = s.call
        /\ d.wild = s.wild /\ d.up = s.up /\ d.down = s.down
        /\ d.pcb = [s.pcb EXCEPT !.state = "freed", !.end = "rst"]
    BY <1>1 DEF Systems, Pcbs
  <2> HIDE DEF d
  <2>2. /\ d.pcb.state = "freed" /\ d.pcb.unacked = s.pcb.unacked /\ d.pcb.end = "rst"
        /\ d.pcb.recv = s.pcb.recv /\ d.pcb.sent = s.pcb.sent /\ d.pcb.err = s.pcb.err
        /\ d.pcb.refused = s.pcb.refused /\ d.pcb.wnd = s.pcb.wnd
    BY <2>1, <1>1 DEF Pcbs
  <2>3. ~HasPcb(d) /\ ~HasSocks(d)
    BY <2>1, <1>4 DEF HasPcb, HasSocks
  <2>4. DeadOK(d) /\ ClientOK(d) /\ SkOK(d)
    BY <2>1, <2>3, <1>2, <1>4 DEF DeadOK, ClientOK, SkOK
  <2>5. PcbOK(d)
    BY <2>2, <2>3, <1>2, <1>4 DEF PcbOK, PcbOpen
  <2>6. WndOK(d) /\ PendingOK(d) /\ ReadOK(d) /\ ~d.wild
    BY <2>1, <2>2, <2>3, <1>2 DEF WndOK, PendingOK, ReadOK
  <2>7. UpOK(d, e) /\ DownOK(d, e)
    BY <2>1, <2>3, <1>2, <1>4 DEF UpOK, DownOK
  <2>8. EndOK(d, e)
    BY <2>1, <2>2, <2>3, <1>3 DEF EndOK
  <2>9. QED BY <2>1, <2>4, <2>5, <2>6, <2>7, <2>8, <1>1 DEF SystemOK
<1>22. QED BY <1>19, <1>20, <1>21 DEF z, y, x, g, d

\* The proxy answers, or ends its answer.
LEMMA ProxyKeeps ==
    ASSUME NEW s, NEW e, SystemOK(s, e), s.sk.state = "up", NEW f \in Envs,
           f.sent = e.sent, f.read = e.read, f.answer >= e.answer, f.fin = e.fin,
           f.failed = e.failed, f.quit = e.quit, e.eof => f.eof
    PROVE  SystemOK(s, f)
<1>1. HasSocks(s) /\ s.c.live
  BY DEF SystemOK, SkOK, HasSocks
<1>2. UpOK(s, f)
  BY DEF SystemOK, UpOK
<1>3. DownOK(s, f)
  <2>1. e.read \in Nat /\ e.answer \in Nat /\ f.answer \in Nat
    BY SizesAssumption DEF SystemOK, Envs
  <2>2. f.read <= f.answer
    BY <2>1 DEF SystemOK, DownOK
  <2>3. QED BY <2>2 DEF SystemOK, DownOK
<1>4. EndOK(s, f)
  BY <1>1 DEF SystemOK, EndOK
<1>5. QED BY <1>2, <1>3, <1>4 DEF SystemOK

\* The program starts with a SYN of the application.
LEMMA InitKeeps == Init => SystemOK(st, env)
<1> SUFFICES ASSUME Init PROVE SystemOK(st, env)
  OBVIOUS
<1>1. NoClient \in Clients /\ NoCall \in Calls
  <2>1. 0 \in -1..1
    OBVIOUS
  <2>2. QED BY <2>1 DEF NoClient, Clients, NoCall, Calls
<1>2. st \in Systems
  BY <1>1, SizesAssumption DEF Init, Systems, Pcbs, Connections, JobLists
<1>3. env \in Envs
  BY SizesAssumption DEF Init, Envs
<1>4. /\ st.c = NoClient /\ st.jobs = <<>> /\ st.call = NoCall /\ ~st.wild /\ st.up = <<>> /\ st.down = <<>>
      /\ st.sk.state = "none" /\ st.sk.send = "ready" /\ st.sk.recv = "ready"
      /\ st.pcb.state = "syn_rcvd" /\ st.pcb.wnd = Wnd /\ st.pcb.unacked = 0 /\ st.pcb.end = "none"
      /\ ~st.pcb.recv /\ ~st.pcb.sent /\ ~st.pcb.err /\ ~st.pcb.refused
  BY DEF Init
<1>5. env.sent = 0 /\ ~env.fin /\ env.answer = 0 /\ env.read = 0
  BY DEF Init
<1>6. /\ ~st.c.live /\ ~st.c.aborted /\ st.c.dead = "null" /\ st.c.buf = <<>> /\ ~st.c.socks_up
      /\ st.c.rbuf = <<>> /\ st.c.pending = 0
  BY <1>4 DEF NoClient
<1>7. ~HasPcb(st) /\ ~HasSocks(st)
  BY <1>6 DEF HasPcb, HasSocks
<1>8. DeadOK(st) /\ ClientOK(st)
  BY <1>4, <1>6 DEF DeadOK, ClientOK, NoCall
<1>9. PcbOK(st) /\ SkOK(st)
  BY <1>4, <1>7 DEF PcbOK, PcbOpen, SkOK
<1>10. WndOK(st) /\ PendingOK(st) /\ ReadOK(st)
  <2>1. Len(st.c.buf) = 0 /\ Wnd <= Wnd /\ 0 <= Wnd /\ 0 <= SndBuf
    BY <1>6, SizesAssumption
  <2>2. QED BY <2>1, <1>4, <1>6, <1>7 DEF WndOK, PendingOK, ReadOK
<1>11. UpOK(st, env) /\ DownOK(st, env)
  <2>1. Len(st.up) = 0 /\ Len(st.down) = 0 /\ 0 <= 0
    BY <1>4
  <2>2. QED BY <2>1, <1>4, <1>5, <1>6, <1>7, NoBytes DEF UpOK, DownOK
<1>12. EndOK(st, env)
  BY <1>4, <1>5, <1>6, <1>7 DEF EndOK
<1>13. QED BY <1>2, <1>3, <1>4, <1>8, <1>9, <1>10, <1>11, <1>12 DEF SystemOK
------------------------------------------------------------------------------
(* The invariant is inductive *)

\* The socket is ready for reading while a write goes on.
LEMMA ReadAgainKeeps ==
    ASSUME NEW s, NEW e, SystemOK(s, e), s.jobs = <<>>, s.sk.recv = "busy"
    PROVE  SystemOK(Push(s, "recv"), e) /\ Push(s, "recv").jobs = <<"recv">>
           /\ Push(s, "recv").sk = s.sk /\ Push(s, "recv").c = s.c
<1> DEFINE l == <<"recv">> \o s.jobs
           t == Push(s, "recv")
<1>1. s \in Systems /\ SkOK(s)
  BY DEF SystemOK
<1>2. l = <<"recv">> /\ l \in JobLists
  BY PushJobs DEF JobLists
<1>3. t = [s EXCEPT !.jobs = l]
  BY DEF Push
<1> HIDE DEF l, t
<1>4. /\ t \in Systems /\ t.c = s.c /\ t.pcb = s.pcb /\ t.sk = s.sk /\ t.call = s.call
      /\ t.wild = s.wild /\ t.up = s.up /\ t.down = s.down /\ t.jobs = <<"recv">>
  BY <1>1, <1>2, <1>3 DEF Systems
<1>5. HasSocks(s)
  BY <1>1 DEF SkOK
<1>6. (HasPcb(t) <=> HasPcb(s)) /\ HasSocks(t)
  BY <1>4, <1>5 DEF HasPcb, HasSocks
<1>7. SkOK(t)
  <2>1. t.jobs \notin {<<"connected">>, <<"control">>, <<"send">>, <<"send", "recv">>, <<"recv", "send">>}
    BY <1>4, JobsDiffer
  <2>2. QED BY <2>1, <1>1, <1>4, <1>5, <1>6 DEF SkOK
<1>8. DeadOK(t) /\ ClientOK(t) /\ PcbOK(t) /\ WndOK(t) /\ PendingOK(t) /\ ReadOK(t) /\ ~t.wild
  BY <1>4, <1>5, <1>6 DEF SystemOK, DeadOK, ClientOK, PcbOK, WndOK, PendingOK, ReadOK
<1>9. UpOK(t, e) /\ DownOK(t, e) /\ EndOK(t, e)
  BY <1>4, <1>5, <1>6 DEF SystemOK, UpOK, DownOK, EndOK
<1>10. SystemOK(t, e)
  BY <1>4, <1>7, <1>8, <1>9 DEF SystemOK
<1>11. QED BY <1>4, <1>10 DEF t

\* connection_send.
LEMMA WriteStep ==
    ASSUME NEW s, SystemOK(s, env), s.sk.send = "busy", s.jobs \in {<<>>, <<"recv">>}, Write(s)
    PROVE  SystemOK(st', env')
<1>1. PICK n \in 1..Len(s.c.buf) :
          /\ st' \in client_socks_send_handler_done([s EXCEPT !.up = @ \o SubSeq(s.c.buf, 1, n)], n)
          /\ UNCHANGED env
  BY DEF Write
<1>2. SystemOK(st', env)
  BY <1>1, WriteKeeps
<1>3. QED BY <1>1, <1>2

\* connection_recv.
LEMMA ReadStep ==
    ASSUME NEW s, SystemOK(s, env), s.sk.recv = "busy", s.jobs \in {<<>>, <<"send">>}, Read(s)
    PROVE  SystemOK(st', env')
<1>1. env \in Envs /\ env.read \in Nat /\ env.answer \in 0..DownBytes /\ HasSocks(s)
  BY SizesAssumption DEF SystemOK, SkOK, Envs
<1> DEFINE a == env.answer - env.read
<1>2. CASE \E n \in 1..Min({RecvBuf, a}) :
               /\ st' \in client_socks_recv_handler_done(s, [i \in 1..n |-> env.read + i])
               /\ env' = [env EXCEPT !.read = @ + n]
  <2>1. PICK n \in 1..Min({RecvBuf, a}) :
            /\ st' \in client_socks_recv_handler_done(s, [i \in 1..n |-> env.read + i])
            /\ env' = [env EXCEPT !.read = @ + n]
    BY <1>2
  <2>2. RecvBuf \in Int /\ a \in Int
    BY <1>1, SizesAssumption
  <2>3. Min({RecvBuf, a}) \in {RecvBuf, a} /\ Min({RecvBuf, a}) <= RecvBuf /\ Min({RecvBuf, a}) <= a
    <3> HIDE DEF a
    <3>1. QED BY ONLY <2>2, MinPair
  <2>4. n \in Nat \ {0} /\ n <= RecvBuf /\ env.read + n <= env.answer
    <3> DEFINE q == Min({RecvBuf, a})
    <3>1. q \in Int /\ q <= RecvBuf /\ q <= a /\ n \in 1..q
      BY <2>2, <2>3
    <3> HIDE DEF q
    <3>2. n \in Nat \ {0} /\ n <= RecvBuf /\ n <= a
      <4> HIDE DEF a
      <4>1. QED BY <3>1, <2>2
    <3>3. QED BY <3>2, <1>1, SizesAssumption
  <2> DEFINE k == env.read + n
  <2>5. k \in 0..DownBytes
    BY <2>4, <1>1, SizesAssumption
  <2>6. env' = [env EXCEPT !.read = k]
    BY <2>1
  <2> HIDE DEF k
  <2>7. /\ env' \in Envs /\ env'.sent = env.sent /\ env'.read = k /\ env'.answer = env.answer
        /\ env'.fin = env.fin /\ env'.failed = env.failed /\ env'.eof = env.eof /\ env'.quit = env.quit
    BY <2>5, <2>6, <1>1 DEF Envs
  <2>8. st' \in client_socks_recv_handler_done(s, Run(env.read, n))
    BY <2>1 DEF Run
  <2>9. env'.read = env.read + n
    BY <2>7 DEF k
  <2>10. \A t \in client_socks_recv_handler_done(s, Run(env.read, n)) : SystemOK(t, env')
    BY <2>4, <2>7, <2>9, <1>1, ReadKeeps
  <2>11. QED BY <2>8, <2>10
<1>3. CASE env.eof /\ env.read = env.answer /\ st' \in client_free_socks(s) /\ UNCHANGED env
  <2>1. \A t \in client_free_socks(s) : SystemOK(t, env)
    BY <1>1, <1>3, FreeSocksKeeps
  <2>2. QED BY <2>1, <1>3
<1>4. QED BY <1>2, <1>3 DEF Read

\* BSOCKSCLIENT_EVENT_ERROR.
LEMMA ErrorStep ==
    ASSUME NEW s, SystemOK(s, env), HasSocks(s), SocksError(s)
    PROVE  SystemOK(st', env')
<1>1. env \in Envs
  BY DEF SystemOK
<1>2. /\ env' \in Envs /\ env'.sent = env.sent /\ env'.read = env.read /\ env'.answer = env.answer
      /\ env'.fin = env.fin /\ env'.failed
  BY <1>1 DEF SocksError, Envs
<1>3. \A t \in client_free_socks(s) : SystemOK(t, env')
  BY <1>2, FreeSocksKeeps
<1>4. QED BY <1>3 DEF SocksError

\* The job that was pushed last.
LEMMA RunJobStep == SystemOK(st, env) /\ RunJob => SystemOK(st', env')
<1> SUFFICES ASSUME SystemOK(st, env), RunJob PROVE SystemOK(st', env')
  OBVIOUS
<1> DEFINE s == Pop(st)
           job == Head(st.jobs)
<1>1. /\ SystemOK(s, env) /\ HasSocks(s)
      /\ job = "connected" => s.jobs = <<>> /\ s.sk.state = "connecting"
      /\ job = "control" => s.jobs = <<>> /\ s.sk.state \in Steps
      /\ job = "send" => s.jobs \in {<<>>, <<"recv">>} /\ s.sk.send = "busy"
      /\ job = "recv" => s.jobs \in {<<>>, <<"send">>} /\ s.sk.recv = "busy"
  BY PopKeeps DEF RunJob
<1>2. \/ job = "connected" /\ st' = connector_handler(s) /\ UNCHANGED env
      \/ job = "control" /\ st' = HandshakeStep(s) /\ UNCHANGED env
      \/ job = "send" /\ Write(s)
      \/ job = "recv" /\ Read(s)
      \/ job # "connected" /\ st' = s /\ UNCHANGED env
      \/ SocksError(s)
  BY DEF RunJob
<1> HIDE DEF s, job
<1>3. CASE job = "connected" /\ st' = connector_handler(s) /\ UNCHANGED env
  <2>1. "sending_hello" \in Steps
    BY DEF Steps
  <2>2. SystemOK(connector_handler(s), env)
    BY <2>1, <1>1, <1>3, StepKeeps DEF connector_handler
  <2>3. QED BY <2>2, <1>3
<1>4. CASE job = "control" /\ st' = HandshakeStep(s) /\ UNCHANGED env
  <2>1. SystemOK(HandshakeStep(s), env)
    BY <1>1, <1>4, HandshakeKeeps
  <2>2. QED BY <2>1, <1>4
<1>5. CASE job = "send" /\ Write(s)
  BY <1>1, <1>5, WriteStep
<1>6. CASE job = "recv" /\ Read(s)
  BY <1>1, <1>6, ReadStep
<1>7. CASE job # "connected" /\ st' = s /\ UNCHANGED env
  BY <1>1, <1>7
<1>8. CASE SocksError(s)
  BY <1>1, <1>8, ErrorStep
<1>9. QED BY <1>2, <1>3, <1>4, <1>5, <1>6, <1>7, <1>8

\* The file descriptor of the SOCKS connection.
LEMMA ConnectionStep == SystemOK(st, env) /\ connection_fd_handler => SystemOK(st', env')
<1> SUFFICES ASSUME SystemOK(st, env), connection_fd_handler PROVE SystemOK(st', env')
  OBVIOUS
<1>1. st.jobs = <<>>
  BY DEF connection_fd_handler, Idle
<1> DEFINE x == IF CanRead THEN Push(st, "recv") ELSE st
<1>2. CASE st.sk.state = "connecting" /\ st' = connector_handler(st) /\ UNCHANGED env
  <2>1. "sending_hello" \in Steps
    BY DEF Steps
  <2>2. SystemOK(connector_handler(st), env)
    BY <2>1, <1>1, <1>2, StepKeeps DEF connector_handler
  <2>3. QED BY <2>2, <1>2
<1>3. CASE st.sk.state \in Range(Front(Handshake)) /\ st' = HandshakeStep(st) /\ UNCHANGED env
  <2>1. SystemOK(HandshakeStep(st), env)
    BY <1>1, <1>3, HandshakeStates, HandshakeKeeps
  <2>2. QED BY <2>1, <1>3
<1>4. CASE st.sk.send = "busy" /\ Write(x)
  <2>1. SystemOK(x, env) /\ x.sk.send = "busy" /\ x.jobs \in {<<>>, <<"recv">>}
    <3>1. CASE CanRead
      <4>1. st.sk.recv = "busy" /\ x = Push(st, "recv")
        BY <3>1 DEF CanRead
      <4>2. QED BY <4>1, <1>1, <1>4, ReadAgainKeeps
    <3>2. CASE ~CanRead
      <4>1. x = st
        BY <3>2
      <4>2. QED BY <4>1, <1>1, <1>4
    <3>3. QED BY <3>1, <3>2
  <2> HIDE DEF x
  <2>2. QED BY <2>1, <1>4, WriteStep
<1>5. CASE st.sk.send = "busy" /\ Write(st)
  BY <1>1, <1>5, WriteStep
<1>6. CASE CanRead /\ Read(st)
  BY <1>1, <1>6, ReadStep DEF CanRead
<1>7. QED BY <1>2, <1>3, <1>4, <1>5, <1>6 DEF connection_fd_handler

\* The callbacks of lwIP.
LEMMA CallbackStep ==
    ASSUME SystemOK(st, env), listener_accept_func \/ Data \/ Fin \/ Ack \/ client_err_func
    PROVE  SystemOK(st', env')
<1>1. /\ env \in Envs /\ env.sent \in Nat /\ st \in Systems /\ st.pcb \in Pcbs /\ st.pcb.wnd \in Nat
      /\ st.pcb.recv \in BOOLEAN
  BY SizesAssumption DEF SystemOK, Envs, Systems, Pcbs
<1>2. CASE listener_accept_func
  <2> DEFINE s == [st EXCEPT !.c = [NoClient EXCEPT !.live = TRUE], !.sk.state = "connecting",
                             !.pcb.state = "established", !.pcb.recv = TRUE, !.pcb.err = TRUE]
  <2>1. st.jobs = <<>> /\ st.pcb.state = "syn_rcvd" /\ UNCHANGED env
    BY <1>2 DEF listener_accept_func, Idle
  <2>2. /\ SystemOK(Enter(s, "accept"), env) /\ SystemOK(Push(Enter(s, "accept"), "connected"), env)
        /\ SystemOK([st EXCEPT !.pcb.state = "freed", !.pcb.end = "rst"], env)
    BY <2>1, AcceptKeeps
  <2>3. \/ st' = Enter(s, "accept")
        \/ st' = Push(Enter(s, "accept"), "connected")
        \/ st' = [st EXCEPT !.pcb.state = "freed", !.pcb.end = "rst"]
    BY <1>2 DEF listener_accept_func
  <2> HIDE DEF s
  <2>4. QED BY <2>1, <2>2, <2>3
<1>3. CASE Data
  <2> DEFINE w == st.pcb.wnd
             v == UpBytes - env.sent
  <2>1. st.jobs = <<>> /\ st.pcb.state = "established"
    BY <1>3 DEF Data, Idle
  <2>2. PICK n \in 1..Min({w, v}) :
            /\ IF st.pcb.recv
               THEN st' = client_recv_func(Enter([st EXCEPT !.pcb.wnd = @ - n], "recv"),
                                           [i \in 1..n |-> env.sent + i])
               ELSE UNCHANGED st
            /\ env' = [env EXCEPT !.sent = @ + n]
    BY <1>3 DEF Data
  <2>3. w \in Int /\ v \in Int
    BY <1>1, SizesAssumption
  <2>4. Min({w, v}) \in {w, v} /\ Min({w, v}) <= w /\ Min({w, v}) <= v
    <3> HIDE DEF w, v
    <3>1. QED BY ONLY <2>3, MinPair
  <2>5. n \in Nat \ {0} /\ n <= w /\ n <= v
    <3> DEFINE q == Min({w, v})
    <3>1. q \in Int /\ q <= w /\ q <= v /\ n \in 1..q
      BY <2>3, <2>4
    <3> HIDE DEF q, w, v
    <3>2. QED BY <3>1, <2>3
  <2> DEFINE k == env.sent + n
  <2>6. k \in 0..UpBytes /\ k >= env.sent
    BY <2>5, <1>1, SizesAssumption
  <2>7. env' = [env EXCEPT !.sent = k]
    BY <2>2
  <2> HIDE DEF k
  <2>8. /\ env' \in Envs /\ env'.sent = k /\ env'.read = env.read /\ env'.answer = env.answer
        /\ env'.fin = env.fin /\ env'.failed = env.failed /\ env'.eof = env.eof /\ env'.quit = env.quit
    BY <2>6, <2>7, <1>1 DEF Envs
  <2>9. CASE st.pcb.recv
    <3>1. st' = client_recv_func(Enter([st EXCEPT !.pcb.wnd = @ - n], "recv"), Run(env.sent, n))
      BY <2>2, <2>9 DEF Run
    <3>2. env'.sent = env.sent + n
      BY <2>8 DEF k
    <3>3. SystemOK(client_recv_func(Enter([st EXCEPT !.pcb.wnd = @ - n], "recv"), Run(env.sent, n)), env')
      BY <3>2, <2>1, <2>5, <2>8, <2>9, RecvKeeps
    <3>4. QED BY <3>1, <3>3
  <2>10. CASE ~st.pcb.recv
    <3>1. st' = st
      BY <2>2, <2>10
    <3>2. st.pcb.state \in PcbOpen /\ env'.sent >= env.sent
      BY <2>1, <2>6, <2>8 DEF PcbOpen
    <3>3. SystemOK(st, env')
      BY <3>2, <2>8, <2>10, DroppedKeeps
    <3>4. QED BY <3>1, <3>3
  <2>11. QED BY <2>9, <2>10, <1>1
<1>4. CASE Fin
  <2> DEFINE s == [st EXCEPT !.pcb.state = "close_wait"]
             x == Enter(s, "recv")
  <2>1. st.jobs = <<>> /\ st.pcb.state = "established"
        /\ (IF st.pcb.recv THEN st' \in client_free_client(Enter(s, "recv")) ELSE st' = s)
        /\ env' = [env EXCEPT !.fin = st.pcb.recv]
    BY <1>4 DEF Fin, Idle
  <2>2. SystemOK(s, env) /\ HasPcb(s) /\ (HasSocks(s) <=> HasSocks(st)) /\ ~env.fin
    BY <2>1, CloseWaitKeeps
  <2>3. /\ env' \in Envs /\ env'.sent = env.sent /\ env'.read = env.read /\ env'.answer = env.answer
        /\ env'.fin = st.pcb.recv
    BY <2>1, <1>1 DEF Envs
  <2>4. CASE st.pcb.recv
    <3> HIDE DEF s
    <3>1. HasSocks(s)
      BY <2>2, <2>4 DEF SystemOK, PcbOK
    <3>2. "recv" \in {"accept", "recv", "sent"}
      OBVIOUS
    <3>3. SystemOK(x, env)
      BY <2>2, <3>2, EnterKeeps
    <3>4. s \in Systems /\ ~s.c.aborted
      BY <2>2 DEF SystemOK, ClientOK, HasPcb
    <3>5. KeepsBuffers(x, s) /\ x.c.client_closed = s.c.client_closed
          /\ x.c.socks_closed = s.c.socks_closed
      BY <3>2, <3>4, EnterFields
    <3> HIDE DEF x
    <3>6. HasPcb(x) /\ HasSocks(x)
      BY <3>1, <3>5, <2>2 DEF HasPcb, HasSocks, KeepsBuffers
    <3>7. Mid(x, env)
      BY <3>3, <3>6, OpenIsMid
    <3>8. x \in Systems /\ x.c.live /\ ~x.c.aborted /\ DeadOK(x)
      BY <3>7 DEF Mid, HasPcb
    <3>9. st' \in client_free_client(x)
      BY <2>1, <2>4 DEF x
    <3>10. Gone(st', x)
      BY <3>8, <3>9, ClientFreed
    <3>11. env'.fin
      BY <2>3, <2>4
    <3>12. QED BY <3>6, <3>7, <3>10, <3>11, <2>3, GoneKeeps
  <2>5. CASE ~st.pcb.recv
    <3>1. env' = env
      BY <2>1, <2>2, <2>5, <1>1 DEF Envs
    <3>2. st' = s
      BY <2>1, <2>5
    <3>3. QED BY <3>1, <3>2, <2>2
  <2>6. QED BY <2>4, <2>5, <1>1
<1>5. CASE Ack
  <2>1. st.jobs = <<>> /\ st.pcb.sent /\ UNCHANGED env
    BY <1>5 DEF Ack, Idle
  <2>2. PICK n \in 1..st.pcb.unacked :
            st' \in client_sent_func(Enter([st EXCEPT !.pcb.unacked = @ - n], "sent"), n)
    BY <1>5 DEF Ack
  <2>3. SystemOK(st', env)
    BY <2>1, <2>2, AckKeeps
  <2>4. QED BY <2>1, <2>3
<1>6. CASE client_err_func
  <2> DEFINE s == [CallbacksRemoved(st) EXCEPT !.pcb.state = "freed", !.pcb.end = "rst"]
  <2>1. st.pcb.state \in PcbOpen /\ UNCHANGED env
        /\ st' = IF st.pcb.err THEN client_handle_freed_client(s) ELSE s
    BY <1>6 DEF client_err_func
  <2>2. st.pcb.err /\ SystemOK(client_handle_freed_client(s), env)
    BY <2>1, ErrKeeps
  <2> HIDE DEF s
  <2>3. QED BY <2>1, <2>2
<1>7. QED BY <1>2, <1>3, <1>4, <1>5, <1>6

\* Every step keeps the client in order.
LEMMA NextKeeps == SystemOK(st, env) /\ [Next]_vars => SystemOK(st', env')
<1> SUFFICES ASSUME SystemOK(st, env), [Next]_vars PROVE SystemOK(st', env')
  OBVIOUS
<1>1. env \in Envs /\ st \in Systems
  BY DEF SystemOK
<1>2. CASE RunJob
  BY <1>2, RunJobStep
<1>3. CASE Return
  <2>1. st.call.fn # "none" /\ UNCHANGED env
        /\ st' = [st EXCEPT !.call = NoCall,
                      !.c.dead = IF ~st.c.live \/ st.call.killed = 0 THEN "null" ELSE "stale"]
    BY <1>3 DEF Return
  <2>2. SystemOK(st', env)
    BY <2>1, ReturnKeeps
  <2>3. QED BY <2>1, <2>2
<1>4. CASE listener_accept_func \/ Data \/ Fin \/ Ack \/ client_err_func
  BY <1>4, CallbackStep
<1>5. CASE connection_fd_handler
  BY <1>5, ConnectionStep
<1>6. CASE SocksFails
  <2>1. st.sk.state \notin {"none", "freed"} /\ SocksError(st)
    BY <1>6 DEF SocksFails
  <2>2. HasSocks(st)
    BY <2>1 DEF SystemOK, SkOK
  <2>3. QED BY <2>1, <2>2, ErrorStep
<1>7. CASE Proxy
  <2>1. st.sk.state = "up" /\ UNCHANGED st
    BY <1>7 DEF Proxy
  <2>2. /\ env' \in Envs /\ env'.sent = env.sent /\ env'.read = env.read /\ env'.answer >= env.answer
        /\ env'.fin = env.fin /\ env'.failed = env.failed /\ env'.quit = env.quit
        /\ (env.eof => env'.eof)
    <3>1. CASE env.answer < DownBytes /\ env' = [env EXCEPT !.answer = @ + 1]
      <4> DEFINE k == env.answer + 1
      <4>1. k \in 0..DownBytes /\ k >= env.answer
        BY <3>1, <1>1, SizesAssumption DEF Envs
      <4>2. env' = [env EXCEPT !.answer = k]
        BY <3>1
      <4> HIDE DEF k
      <4>3. QED BY <4>1, <4>2, <1>1 DEF Envs
    <3>2. CASE env' = [env EXCEPT !.eof = TRUE]
      <4>1. env.answer \in Nat
        BY <1>1, SizesAssumption DEF Envs
      <4>2. env' \in Envs /\ env'.sent = env.sent /\ env'.read = env.read /\ env'.answer = env.answer
            /\ env'.fin = env.fin /\ env'.failed = env.failed /\ env'.quit = env.quit /\ env'.eof
        BY <3>2, <1>1 DEF Envs
      <4>3. QED BY <4>1, <4>2
    <3>3. QED BY <3>1, <3>2, <1>7 DEF Proxy
  <2>3. SystemOK(st, env')
    BY <2>1, <2>2, ProxyKeeps
  <2>4. QED BY <2>1, <2>3
<1>8. CASE Terminate
  <2>1. st.jobs = <<>> /\ st.pcb.state # "syn_rcvd" /\ env' = [env EXCEPT !.quit = TRUE]
        /\ st' = IF st.c.live THEN client_murder(st) ELSE st
    BY <1>8 DEF Terminate, Idle
  <2>2. /\ env' \in Envs /\ env'.sent = env.sent /\ env'.read = env.read /\ env'.answer = env.answer
        /\ env'.fin = env.fin /\ env'.failed = env.failed /\ env'.eof = env.eof /\ env'.quit
    BY <2>1, <1>1 DEF Envs
  <2>3. CASE st.c.live
    <3>1. SystemOK(client_murder(st), env')
      BY <2>1, <2>2, <2>3, MurderKeeps
    <3>2. QED BY <3>1, <2>1, <2>3
  <2>4. CASE ~st.c.live
    <3>1. ~HasPcb(st) /\ ~HasSocks(st) /\ st' = st
      BY <2>1, <2>4 DEF HasPcb, HasSocks
    <3>2. UpOK(st, env') /\ DownOK(st, env')
      BY <2>2, <2>4, <3>1 DEF SystemOK, UpOK, DownOK
    <3>3. EndOK(st, env')
      BY <2>1, <2>2, <2>4, <3>1 DEF SystemOK, EndOK
    <3>4. SystemOK(st, env')
      BY <2>2, <3>2, <3>3 DEF SystemOK
    <3>5. QED BY <3>1, <3>4
  <2>5. QED BY <2>3, <2>4
<1>9. CASE UNCHANGED vars
  <2>1. st' = st /\ env' = env
    BY <1>9 DEF vars
  <2>2. QED BY <2>1
<1>10. QED BY <1>2, <1>3, <1>4, <1>5, <1>6, <1>7, <1>8, <1>9 DEF Next
------------------------------------------------------------------------------
(* The theorems *)

\* A run of bytes in a bounded buffer.
LEMMA RunBounded ==
    ASSUME NEW a \in Nat, NEW n \in Nat, NEW N \in Nat, NEW L \in Nat, a + n <= N, n <= L
    PROVE  Run(a, n) \in BoundedSeq(1..N, L)
<1>1. \A i \in 1..n : a + i \in 1..N
  OBVIOUS
<1>2. Run(a, n) \in [1..n -> 1..N]
  BY <1>1 DEF Run
<1>3. n \in 0..L
  OBVIOUS
<1>4. QED BY <1>2, <1>3 DEF BoundedSeq, SeqOf

\* Two jobs wait at most.
LEMMA JobsBounded == JobLists \subseteq BoundedSeq({"connected", "control", "send", "recv"}, 2)
<1> DEFINE J == {"connected", "control", "send", "recv"}
<1>1. \A x \in J : <<x>> \in [1..1 -> J]
  OBVIOUS
<1>2. \A x, y \in J : <<x, y>> \in [1..2 -> J]
  OBVIOUS
<1>3. <<>> \in [1..0 -> J]
  OBVIOUS
<1>4. 0 \in 0..2 /\ 1 \in 0..2 /\ 2 \in 0..2
  OBVIOUS
<1>5. "connected" \in J /\ "control" \in J /\ "send" \in J /\ "recv" \in J
  OBVIOUS
<1> HIDE DEF J
<1>6. \A l \in JobLists : \E m \in 0..2 : l \in [1..m -> J]
  <2> SUFFICES ASSUME NEW l \in JobLists PROVE \E m \in 0..2 : l \in [1..m -> J]
    OBVIOUS
  <2>1. CASE l = <<>>
    BY <2>1, <1>3, <1>4
  <2>2. CASE l \in {<<"connected">>, <<"control">>, <<"send">>, <<"recv">>}
    BY <2>2, <1>1, <1>4, <1>5
  <2>3. CASE l \in {<<"send", "recv">>, <<"recv", "send">>}
    BY <2>3, <1>2, <1>4, <1>5
  <2>4. QED BY <2>1, <2>2, <2>3 DEF JobLists
<1>7. QED BY <1>6 DEF BoundedSeq, SeqOf, J

\* A run that starts the other.
LEMMA RunPrefix ==
    ASSUME NEW m \in Nat, NEW n \in Nat, m <= n
    PROVE  IsPrefix(Run(0, m), Run(0, n))
<1> DEFINE o == 0
<1>1. o \in Nat /\ o <= m /\ o + 1 = 1 /\ o + o = o /\ m - o = m
  OBVIOUS
<1> HIDE DEF o
<1>2. Len(Run(o, m)) = m /\ Len(Run(o, n)) = n
  BY <1>1, RunSeq
<1>3. SubSeq(Run(o, m), o + 1, m) = Run(o + o, m - o)
  <2>1. m \in Nat /\ o \in Nat /\ o <= m /\ m <= m
    BY <1>1
  <2>2. CutsRun(o, m, o, m)
    BY ONLY <2>1, RunCuts
  <2>3. QED BY <2>2 DEF CutsRun
<1>4. SubSeq(Run(o, n), o + 1, m) = Run(o + o, m - o)
  <2>1. m \in Nat /\ n \in Nat /\ o \in Nat /\ o <= m /\ m <= n
    BY <1>1
  <2>2. CutsRun(o, n, o, m)
    BY ONLY <2>1, RunCuts
  <2>3. QED BY <2>2 DEF CutsRun
<1>5. IsPrefix(Run(o, m), Run(o, n))
  BY <1>1, <1>2, <1>3, <1>4 DEF IsPrefix
<1>6. QED BY <1>5 DEF o

\* The invariant is one.
THEOREM ClientAlways == Spec => []SystemOK(st, env)
<1>1. Init => SystemOK(st, env)
  BY InitKeeps
<1>2. SystemOK(st, env) /\ [Next]_vars => SystemOK(st, env)'
  BY NextKeeps
<1>3. QED BY <1>1, <1>2, PTL DEF Spec

\* The types and the bounds of the arrays follow from it.
LEMMA TypesFollow == SystemOK(st, env) => TypeOK
<1> SUFFICES ASSUME SystemOK(st, env) PROVE TypeOK
  OBVIOUS
<1>1. /\ st \in Systems /\ st.c \in Clients /\ st.pcb \in Pcbs /\ st.sk \in Connections /\ env \in Envs
      /\ st.jobs \in JobLists /\ st.call \in Calls /\ st.up \in Seq(Nat) /\ st.down \in Seq(Nat)
  BY DEF SystemOK, Systems
<1>2. st.c.live \in BOOLEAN /\ (~st.c.live => st.c = NoClient)
  BY <1>1 DEF SystemOK, ClientOK, Clients
<1>3. <<>> \in BoundedSeq(1..UpBytes, Wnd) /\ <<>> \in BoundedSeq(1..DownBytes, RecvBuf)
  <2> DEFINE o == 0
             U == UpBytes
             D == DownBytes
             W == Wnd
             R == RecvBuf
  <2>1. o \in Nat /\ U \in Nat /\ D \in Nat /\ W \in Nat /\ R \in Nat /\ o + o <= U /\ o + o <= D
        /\ o <= W /\ o <= R
    BY SizesAssumption
  <2> HIDE DEF o
  <2>2. Run(o, o) \in BoundedSeq(1..U, W) /\ Run(o, o) \in BoundedSeq(1..D, R)
    BY <2>1, RunBounded
  <2>3. QED BY <2>2, NoBytes DEF o
<1>4. st.c.buf \in BoundedSeq(1..UpBytes, Wnd)
  <2>1. CASE st.c.live
    <3> DEFINE a == Len(st.up)
               n == Len(st.c.buf)
    <3>1. st.c.buf = Run(a, n) /\ a + n <= env.sent /\ n <= Wnd
      BY <2>1 DEF SystemOK, UpOK, WndOK
    <3>2. a \in Nat /\ n \in Nat /\ env.sent \in 0..UpBytes
      BY <1>1, LenProperties DEF Clients, Envs
    <3> HIDE DEF a, n
    <3>3. a \in Nat /\ n \in Nat /\ UpBytes \in Nat /\ Wnd \in Nat /\ a + n <= UpBytes /\ n <= Wnd
      BY <3>1, <3>2, SizesAssumption
    <3>4. Run(a, n) \in BoundedSeq(1..UpBytes, Wnd)
      BY ONLY <3>3, RunBounded
    <3>5. QED BY <3>1, <3>4
  <2>2. CASE ~st.c.live
    BY <2>2, <1>2, <1>3 DEF NoClient
  <2>3. QED BY <2>1, <2>2
<1>5. st.c.rbuf \in BoundedSeq(1..DownBytes, RecvBuf) /\ st.c.rsent \in 0..RecvBuf
  <2>1. CASE st.c.live
    <3> DEFINE d == Len(st.down)
               r == st.c.rsent
               n == Len(st.c.rbuf)
               a == d - r
    <3>1. st.c.rbuf = Run(a, n) /\ a + n <= env.read /\ n <= RecvBuf /\ r <= n /\ r <= d
      BY <2>1 DEF SystemOK, DownOK
    <3>2. d \in Nat /\ r \in Nat /\ n \in Nat /\ env.read \in 0..DownBytes
      BY <1>1, LenProperties DEF Clients, Envs
    <3> HIDE DEF d, r, n
    <3>3. a \in Nat /\ r \in 0..RecvBuf
      BY <3>1, <3>2, SizesAssumption
    <3> HIDE DEF a
    <3>4. a \in Nat /\ n \in Nat /\ DownBytes \in Nat /\ RecvBuf \in Nat /\ a + n <= DownBytes /\ n <= RecvBuf
      BY <3>1, <3>2, <3>3, SizesAssumption
    <3>5. Run(a, n) \in BoundedSeq(1..DownBytes, RecvBuf)
      BY ONLY <3>4, RunBounded
    <3>6. QED BY <3>1, <3>3, <3>5 DEF r
  <2>2. CASE ~st.c.live
    <3>1. st.c.rbuf = <<>> /\ st.c.rsent = 0
      BY <2>2, <1>2 DEF NoClient
    <3>2. QED BY <3>1, <1>3, SizesAssumption
  <2>3. QED BY <2>1, <2>2
<1>6. st.c.pending \in 0..SndBuf /\ st.pcb.unacked \in 0..SndBuf /\ st.pcb.wnd \in 0..Wnd
  <2>1. st.c.pending \in Nat /\ st.pcb.unacked \in Nat /\ st.pcb.wnd \in Nat
    BY <1>1 DEF Clients, Pcbs
  <2>2. st.c.pending <= SndBuf /\ st.pcb.unacked <= SndBuf /\ st.pcb.wnd <= Wnd
    BY DEF SystemOK, PendingOK, WndOK
  <2>3. QED BY <2>1, <2>2, SizesAssumption
<1>7. st.c \in [live : BOOLEAN, aborted : BOOLEAN, dead : {"null", "frame", "stale"},
                client_closed : BOOLEAN, buf : BoundedSeq(1..UpBytes, Wnd),
                socks_up : BOOLEAN, socks_closed : BOOLEAN,
                rbuf : BoundedSeq(1..DownBytes, RecvBuf), rsent : 0..RecvBuf,
                waiting : BOOLEAN, pending : 0..SndBuf]
  BY <1>1, <1>4, <1>5, <1>6 DEF Clients
<1>8. st.pcb \in [state : PcbOpen \cup {"syn_rcvd", "closing", "freed"}, wnd : 0..Wnd,
                  unacked : 0..SndBuf, end : {"none", "fin", "rst"}, recv : BOOLEAN,
                  sent : BOOLEAN, err : BOOLEAN, refused : BOOLEAN]
  BY <1>1, <1>6 DEF Pcbs
<1>9. st.sk \in [state : Range(Handshake) \cup {"none", "connecting", "freed"},
                 send : {"ready", "busy"}, recv : {"ready", "busy"}]
  BY <1>1, HandshakeStates DEF Connections
<1>10. st.jobs \in BoundedSeq({"connected", "control", "send", "recv"}, 2)
  BY <1>1, JobsBounded
<1>11. st.call \in [fn : {"none", "accept", "recv", "sent"}, killed : -1..1, abrt : BOOLEAN]
  BY <1>1 DEF Calls
<1>12. QED BY <1>7, <1>8, <1>9, <1>10, <1>11 DEF TypeOK

\* Whatever callback or job runs, and whatever it frees: the window never lets
\* in more than the client's buffer takes, lwIP holds a callback of this client
\* exactly while the client has its pcb, no data waits for an acknowledgement
\* that cannot come, ERR_ABRT is returned exactly when the pcb was aborted, and
\* nothing is written after it was freed.
THEOREM ClientCorrect == Spec => []ClientInv
<1>1. ASSUME SystemOK(st, env) PROVE ClientInv
  <2>1. TypeOK
    BY <1>1, TypesFollow
  <2>2. WindowFitsBuffer
    BY <1>1 DEF SystemOK, PcbOK, WndOK, WindowFitsBuffer
  <2>3. PcbAndClientAgree
    BY <1>1 DEF SystemOK, PcbOK, HasPcb, PcbAndClientAgree
  <2>4. NeverStalled
    <3> SUFFICES ASSUME st.c.live, st.c.socks_up
                 PROVE  /\ ~st.c.client_closed => st.c.pending = st.pcb.unacked
                        /\ ~st.c.client_closed /\ st.c.rbuf # <<>> => st.c.waiting /\ st.c.pending > 0
                        /\ ~st.c.client_closed /\ ~st.c.socks_closed /\ st.c.rbuf = <<>> => st.sk.recv = "busy"
                        /\ ~st.c.socks_closed /\ st.c.buf # <<>> => st.sk.send = "busy"
      BY DEF NeverStalled
    <3>1. ~st.c.client_closed => st.c.pending = st.pcb.unacked
      BY <1>1 DEF SystemOK, PendingOK, HasPcb
    <3>2. ~st.c.client_closed /\ st.c.rbuf # <<>> => st.c.waiting /\ st.c.pending > 0
      BY <1>1 DEF SystemOK, ReadOK, HasPcb
    <3>3. ~st.c.client_closed /\ ~st.c.socks_closed /\ st.c.rbuf = <<>> => st.sk.recv = "busy"
      BY <1>1 DEF SystemOK, ReadOK, HasPcb, HasSocks
    <3>4. ~st.c.socks_closed /\ st.c.buf # <<>> => st.sk.send = "busy"
      BY <1>1 DEF SystemOK, SkOK, HasSocks
    <3>5. QED BY <3>1, <3>2, <3>3, <3>4
  <2>5. AbortReported /\ NothingWrittenAfterFree
    <3>1. st.call.fn # "none" => (st.call.killed > 0 <=> st.call.abrt)
      BY <1>1 DEF SystemOK, DeadOK
    <3>2. st.call.abrt \in BOOLEAN /\ (st.call.killed > 0) \in BOOLEAN /\ ~st.wild
      BY <1>1 DEF SystemOK, Systems, Calls
    <3>3. st.call.fn # "none" => (st.call.killed > 0) = st.call.abrt
      BY <3>1, <3>2
    <3>4. QED BY <3>2, <3>3 DEF AbortReported, NothingWrittenAfterFree
  <2>6. QED BY <2>1, <2>2, <2>3, <2>4, <2>5 DEF ClientInv
<1>2. QED BY <1>1, ClientAlways, PTL

\* Both directions are relayed in order and to their end: what the proxy and
\* the application have got is what the other side sent, without the bytes
\* that are still buffered; a FIN goes to the application behind the whole
\* answer, and a client whose application has ended its data goes when the
\* proxy has got all of it.
THEOREM BytesCorrect == Spec => []BytesConserved
<1>1. ASSUME SystemOK(st, env) PROVE BytesConserved
  <2> DEFINE a == Len(st.up)
             m == Len(st.c.buf)
             d == Len(st.down)
             n == Len(st.c.rbuf)
             r == st.c.rsent
  <2>1. /\ env.sent \in Nat /\ env.read \in Nat /\ a \in Nat /\ m \in Nat /\ d \in Nat /\ n \in Nat /\ r \in Nat
    BY <1>1, SizesAssumption, LenProperties DEF SystemOK, Systems, Clients, Envs
  <2>2. \A k : Bytes(k) = Run(0, k)
    <3>1. ASSUME NEW k PROVE Bytes(k) = Run(0, k)
      <4>1. \A i \in 1..k : 0 + i = i
        OBVIOUS
      <4>2. QED BY <4>1 DEF Bytes, Run
    <3>2. QED BY <3>1
  <2>3. st.up = Run(0, a) /\ a <= env.sent /\ st.down = Run(0, d) /\ d <= env.read
    BY <1>1 DEF SystemOK, UpOK, DownOK
  <2>4. UploadConserved
    <3>1. CASE st.c.live /\ ~st.c.socks_closed
      <4>1. st.c.buf = Run(a, m) /\ a + m = env.sent
        BY <1>1, <3>1 DEF SystemOK, UpOK, HasSocks
      <4> DEFINE o == 0
      <4>2. o \in Nat /\ o + a = a
        BY <2>1
      <4> HIDE DEF o, a, m
      <4>3. Run(o, a) \o Run(o + a, m) = Run(o, a + m)
        <5>1. o \in Nat /\ a \in Nat /\ m \in Nat
          BY <4>2, <2>1
        <5>2. QED BY ONLY <5>1, RunJoin
      <4>4. Run(0, a) \o Run(a, m) = Run(0, env.sent)
        BY <4>1, <4>2, <4>3 DEF o
      <4>5. QED BY <4>1, <4>4, <3>1, <2>2, <2>3 DEF UploadConserved
    <3>2. CASE ~(st.c.live /\ ~st.c.socks_closed)
      <4> HIDE DEF a
      <4>1. IsPrefix(Run(0, a), Run(0, env.sent))
        BY <2>1, <2>3, RunPrefix
      <4>2. QED BY <4>1, <3>2, <2>2, <2>3 DEF UploadConserved
    <3>3. QED BY <3>1, <3>2
  <2>5. AnswerConserved
    <3>1. CASE st.c.live /\ ~st.c.client_closed
      <4> DEFINE b == d - r
                 k == n - r
      <4>1. st.c.rbuf = Run(b, n) /\ b + n = env.read /\ r <= n /\ r <= d
        BY <1>1, <3>1 DEF SystemOK, DownOK, HasPcb
      <4> DEFINE o == 0
      <4> HIDE DEF a, m, d, n, r
      <4>2. o \in Nat /\ o + d = d /\ b \in Nat /\ k \in Nat /\ b + r = d /\ d + k = env.read /\ n <= n
        BY <4>1, <2>1
      <4> HIDE DEF o, b
      <4>3. SubSeq(Run(b, n), r + 1, n) = Run(b + r, n - r)
        <5>1. b \in Nat /\ n \in Nat /\ r \in Nat /\ r <= n /\ n <= n
          BY <4>1, <4>2, <2>1
        <5>2. CutsRun(b, n, r, n)
          BY ONLY <5>1, RunCuts
        <5>3. QED BY <5>2 DEF CutsRun
      <4> HIDE DEF k
      <4>4. Run(o, d) \o Run(o + d, k) = Run(o, d + k)
        <5>1. o \in Nat /\ d \in Nat /\ k \in Nat
          BY <4>2, <2>1
        <5>2. QED BY ONLY <5>1, RunJoin
      <4>5. SubSeq(st.c.rbuf, r + 1, n) = Run(d, k)
        BY <4>1, <4>2, <4>3 DEF k
      <4>6. Run(0, d) \o Run(d, k) = Run(0, env.read)
        BY <4>2, <4>4 DEF o
      <4>7. st.down \o SubSeq(st.c.rbuf, st.c.rsent + 1, Len(st.c.rbuf)) = Bytes(env.read)
        BY <4>5, <4>6, <2>2, <2>3 DEF r, n
      <4>8. QED BY <4>7, <3>1 DEF AnswerConserved
    <3>2. CASE ~(st.c.live /\ ~st.c.client_closed)
      <4> HIDE DEF d
      <4>1. IsPrefix(Run(0, d), Run(0, env.read))
        BY <2>1, <2>3, RunPrefix
      <4>2. QED BY <4>1, <3>2, <2>2, <2>3 DEF AnswerConserved
    <3>3. QED BY <3>1, <3>2
  <2>6. EndAfterAnswer
    BY <1>1, <2>2, <2>3 DEF SystemOK, EndOK, EndAfterAnswer
  <2>7. UploadCompleted
    BY <1>1, <2>2, <2>3 DEF SystemOK, EndOK, UploadCompleted
  <2>8. QED BY <2>4, <2>5, <2>6, <2>7 DEF BytesConserved
<1>2. QED BY <1>1, ClientAlways, PTL
=============================================================================
