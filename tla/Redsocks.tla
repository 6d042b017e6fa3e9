------------------------------- MODULE Redsocks -------------------------------
(***************************************************************************)
(* redsocks (redsocks.c, socks5.c): TCP connections that iptables redirects *)
(* are accepted, within a limit, connected through the SOCKS5 proxy, and   *)
(* relayed in both directions with splice through a pipe each.  Callbacks  *)
(* of libevent are actions.                                                *)
(*                                                                         *)
(* A client is a slot that is used again and again.  The bytes of a stream *)
(* are 1, 2, ...  Two readings of the clock in one callback differ and the *)
(* clock is not set back: a client that was just touched is not idle.      *)
(***************************************************************************)
EXTENDS Naturals, Sequences, FiniteSets

CONSTANTS Clients,      \* slots
          Talkers,      \* bound: those whose ends send or end their streams
          ConnMax,      \* redsocks_conn_max()
          ClientBytes,  \* bound: the bytes that a client sends
          RelayBytes    \* bound: the bytes that are sent to it

ASSUME RedsocksAssumption ==
    /\ IsFiniteSet(Clients) /\ Talkers \subseteq Clients
    /\ ConnMax \in Nat \ {0}
    /\ ClientBytes \in Nat /\ RelayBytes \in Nat

Ends == {"client", "relay"}
Directions == {"request", "reply"}

\* The bytes that end s of a connection sends at most.
Bytes(c, s) ==
    IF c \notin Talkers THEN 0 ELSE IF s = "client" THEN ClientBytes ELSE RelayBytes

VARIABLES
    cl,         \* cl[c]: redsocks_client and its pump
    net,        \* net[c]: what the two ends have sent, and what was read of it
    listener,   \* the event of the listening socket is added
    backoff     \* accept_backoff_ev is pending

vars == <<cl, net, listener, backoff>>

Negotiation == {"socks5_new", "socks5_method_sent", "socks5_request_sent",
                "socks5_skip_domain", "socks5_skip_address"}

States == Negotiation \cup {"free", "pump_active"}

\* The events of a pump: of either end, EV_READ and EV_WRITE.
Ev(s, rw) == <<s, rw>>
Events == Ends \X {"R", "W"}

Src(d) == IF d = "request" THEN "client" ELSE "relay"
Dst(d) == IF d = "request" THEN "relay" ELSE "client"

Free ==
    [state |-> "free", shut |-> [s \in Ends |-> {}], on |-> {}, active |-> {},
     input |-> <<>>, pipe |-> [d \in Directions |-> <<>>],
     out |-> [d \in Directions |-> <<>>], old |-> FALSE]

Quiet == [s \in Ends |-> [pos |-> 0, read |-> 0, fin |-> FALSE]]

\* Type invariant of the clients, their sockets and the listener.
TypeOK ==
    /\ listener \in BOOLEAN /\ backoff \in BOOLEAN
    /\ \A c \in Clients :
          /\ cl[c].state \in States /\ cl[c].old \in BOOLEAN
          /\ \A s \in Ends : cl[c].shut[s] \subseteq {"R", "W"}
          /\ cl[c].on \subseteq Events /\ cl[c].active \subseteq Events
          /\ \A s \in Ends : net[c][s].read <= net[c][s].pos /\ net[c][s].pos <= Bytes(c, s)
          /\ cl[c].state = "free" => cl[c] = Free

Init ==
    /\ cl = [c \in Clients |-> Free]
    /\ net = [c \in Clients |-> Quiet]
    /\ listener = TRUE
    /\ backoff = FALSE

------------------------------------------------------------------------------
(* Closing, and the pressure it lowers *)

Conns(all) == {c \in Clients : all[c].state # "free"}

\* redsocks_conn
Conn(all) == Cardinality(Conns(all))

\* redsocks_touch_client
Touched(k) == [k EXCEPT !.old = FALSE]

\* redsocks_close and redsocks_conn_list_del end in conn_pressure_lowered: if
\* there is room again the timer is stopped and the listener is back.
conn_pressure_lowered(all) ==
    LET enable == backoff /\ Conn(all) < ConnMax
    IN  /\ backoff' = (backoff /\ ~enable)
        /\ listener' = (listener \/ enable)

\* The callback of c ends with k; if it closed something, that is Free or k
\* without a pipe.
Becomes(c, k) ==
    /\ cl' = [cl EXCEPT ![c] = k]
    /\ IF k = Free \/ k.shut # cl[c].shut THEN conn_pressure_lowered(cl')
       ELSE UNCHANGED <<listener, backoff>>

\* redsocks_drop_client: buffers, pipes, events and sockets.
redsocks_drop_client(c) == Becomes(c, Free)

\* The sockets of clients that were dropped are closed.
SocketsClosed == net' = [c \in Clients |-> IF cl'[c].state = "free" THEN Quiet ELSE net[c]]

shut_both(k) == \A s \in Ends : k.shut[s] = {"R", "W"}

------------------------------------------------------------------------------
(* Accepting *)

\* drop_idle_connections
Idle(all) == {c \in Conns(all) : all[c].old}

Without(all, S) == [c \in Clients |-> IF c \in S THEN Free ELSE all[c]]

\* conn_pressure: dropping idle clients solves it; else accepting pauses.
\* Nobody calls it while the timer is pending.
conn_pressure(all) ==
    IF Idle(all) # {}
    THEN cl' = Without(all, Idle(all)) /\ UNCHANGED <<listener, backoff>>
    ELSE cl' = all /\ backoff' = TRUE /\ listener' = FALSE

\* What redsocks_accept_client makes of a connection.
Accepted == [Free EXCEPT !.state = "socks5_new"]

\* Mutant: the limit is noticed by the next client only.
AcceptOneMore(c) ==
    /\ listener /\ cl[c].state = "free"
    /\ LET all == [cl EXCEPT ![c] = Accepted]
       IN  IF Conn(all) > ConnMax THEN conn_pressure(all)
           ELSE cl' = all /\ UNCHANGED <<listener, backoff>>
    /\ SocketsClosed

\* redsocks_accept_client with redsocks_conn_list_add: the client that reaches
\* the limit brings the pressure about.  red_connect_relay began to connect.
redsocks_accept_client(c) ==
    /\ listener /\ cl[c].state = "free"
    /\ LET all == [cl EXCEPT ![c] = Accepted]
       IN  IF Conn(all) >= ConnMax THEN conn_pressure(all)
           ELSE cl' = all /\ UNCHANGED <<listener, backoff>>
    /\ SocketsClosed

\* redsocks_accept_client without descriptors for the client, or for the relay.
AcceptFails ==
    /\ listener
    /\ \/ conn_pressure(cl)
       \/ UNCHANGED <<cl, listener, backoff>>
    /\ SocketsClosed

\* redsocks_accept_backoff.  The timer is not pending any more, and dropping
\* clients under pressure does not put the listener back.
redsocks_accept_backoff ==
    /\ backoff
    /\ LET dropped == Without(cl, Idle(cl))
       IN  \/ /\ Idle(cl) # {}                \* pressure is ongoing and solved
              /\ cl' = dropped
              /\ backoff' = FALSE /\ UNCHANGED listener
           \/ /\ Idle(cl) = {}                \* ongoing: the timer is set again
              /\ UNCHANGED <<cl, listener, backoff>>
           \/ /\ Conn(cl) < ConnMax           \* accept_enable
              /\ backoff' = FALSE /\ listener' = TRUE
              /\ UNCHANGED cl
    /\ SocketsClosed

------------------------------------------------------------------------------
(* The negotiation with the proxy: socks5.c.  Watermarks see to it that     *)
(* exactly one answer of the proxy is read at a time.                      *)

\* redsocks_write_helper
Next5(c, state) == Becomes(c, [Touched(cl[c]) EXCEPT !.state = state])

\* Mutant: the bufferevent is freed with what it holds.
StartRelayDiscards(c) ==
    Becomes(c, [Touched(cl[c]) EXCEPT !.state = "pump_active", !.input = <<>>,
                                      !.on = {Ev(s, "R") : s \in Ends},
                                      !.active = {Ev(s, "W") : s \in Ends}])

\* redsocks_start_relay: both pipes are made, what was buffered is flushed and
\* both ends are read.
redsocks_start_relay(c) ==
    \/ Becomes(c, [Touched(cl[c]) EXCEPT !.state = "pump_active",
                                         !.on = {Ev(s, "R") : s \in Ends},
                                         !.active = {Ev(s, "W") : s \in Ends}])
    \/ redsocks_drop_client(c)

\* redsocks_relay_connected and socks5_write_cb
redsocks_relay_connected(c) ==
    /\ cl[c].state = "socks5_new"
    /\ Next5(c, "socks5_method_sent") \/ redsocks_drop_client(c)
    /\ SocketsClosed

\* socks5_read_cb: the proxy's answer; one it does not like drops the client.
socks5_read_cb(c) ==
    /\ cl[c].state \in Negotiation \ {"socks5_new"}
    /\ ~net[c]["relay"].fin
    /\ \/ redsocks_drop_client(c)
       \/ cl[c].state = "socks5_method_sent" /\ Next5(c, "socks5_request_sent")
       \/ cl[c].state = "socks5_request_sent"
             /\ \E state \in {"socks5_skip_address", "socks5_skip_domain"} : Next5(c, state)
       \/ cl[c].state = "socks5_skip_domain" /\ Next5(c, "socks5_skip_address")
       \/ cl[c].state = "socks5_skip_address" /\ redsocks_start_relay(c)
    /\ SocketsClosed

Unread(c, s) == net[c][s].pos - net[c][s].read

\* The bytes that s has sent, k of them after those that were read.
Chunk(c, s, k) == [i \in 1..k |-> net[c][s].read + i]

\* The client is read before the pump is there, into the bufferevent's input.
ClientBuffers(c) ==
    /\ cl[c].state \in Negotiation
    /\ \E k \in 1..Unread(c, "client") :
          /\ Becomes(c, [cl[c] EXCEPT !.input = @ \o Chunk(c, "client", k)])
          /\ net' = [net EXCEPT ![c]["client"].read = @ + k]

\* redsocks_event_error with EOF: nothing is relayed yet, so nothing is shut
\* but this side.  The relay is read from socks5_method_sent on.
redsocks_event_error(c, s) ==
    /\ cl[c].state \in Negotiation
    /\ s = "relay" => cl[c].state # "socks5_new"
    /\ net[c][s].fin /\ Unread(c, s) = 0 /\ "R" \notin cl[c].shut[s]
    /\ cl' = [cl EXCEPT ![c] = [Touched(cl[c]) EXCEPT !.shut[s] = @ \cup {"R"}]]
    /\ UNCHANGED <<net, listener, backoff>>

------------------------------------------------------------------------------
(* The pump *)

\* What waits to be written in direction d, in order.
Pending(k, d) == (IF d = "request" THEN k.input ELSE <<>>) \o k.pipe[d]

\* Mutant: only the buffers are written once the request is on its way.
WrittenBufferOnly(k, d, n) ==
    LET m == IF n < Len(k.input) THEN n ELSE Len(k.input)
    IN  IF d = "reply"
        THEN [k EXCEPT !.out[d] = @ \o SubSeq(k.pipe[d], 1, n), !.pipe[d] = SubSeq(@, n + 1, Len(@))]
        ELSE [k EXCEPT !.out[d] = @ \o SubSeq(k.input, 1, m), !.input = SubSeq(@, m + 1, Len(@))]

\* k after n of these were written.
Written(k, d, n) ==
    LET buffered == IF d = "request" THEN Len(k.input) ELSE 0
        t == [k EXCEPT !.out[d] = @ \o SubSeq(Pending(k, d), 1, n),
                       !.pipe[d] = SubSeq(@, (IF n > buffered THEN n - buffered ELSE 0) + 1, Len(@))]
    IN  IF d = "request" THEN [t EXCEPT !.input = SubSeq(@, n + 1, Len(@))] ELSE t

\* event_del also takes back an activation.
Del(k, evs) == [k EXCEPT !.on = @ \ evs, !.active = @ \ evs]

\* The source has ended, all is written, and the destination is not told yet.
DecideShut(k, d) ==
    /\ Pending(k, d) = <<>>
    /\ "R" \in k.shut[Src(d)] /\ "W" \notin k.shut[Dst(d)]

\* The end of redsplice_write_cb: relay EOF, or wait for the destination and
\* leave the source alone, or the other way round.
Decide(k, d) ==
    LET evsrc == Ev(Src(d), "R")
        evdst == Ev(Dst(d), "W")
    IN  IF DecideShut(k, d) THEN Del([k EXCEPT !.shut[Dst(d)] = @ \cup {"W"}], {evsrc, evdst})
        ELSE IF Pending(k, d) # <<>> THEN [Del(k, {evsrc}) EXCEPT !.on = @ \cup {evdst}]
        ELSE [Del(k, {evdst}) EXCEPT !.on = @ \cup {evsrc}]

\* redsplice_write_cb.  Called by event_active the destination may take
\* nothing; called because it is writable it takes something, or fails.
redsplice_write_cb(c, d) ==
    LET evdst == Ev(Dst(d), "W")
        k == [Touched(cl[c]) EXCEPT !.active = @ \ {evdst}]
    IN  /\ cl[c].state = "pump_active"
        /\ evdst \in cl[c].active \cup cl[c].on
        /\ \/ /\ Pending(k, d) # <<>>
              /\ redsocks_drop_client(c)
           \/ \E n \in 0..Len(Pending(k, d)) :
                 /\ n = 0 => evdst \in cl[c].active \/ Pending(k, d) = <<>>
                 /\ LET t == Decide(Written(k, d, n), d)
                    IN  IF shut_both(t) THEN redsocks_drop_client(c) ELSE Becomes(c, t)
        /\ SocketsClosed

\* redsplice_read_cb when the pipe is full: the source is left alone.
SpliceFull(k, d) == Del(k, {Ev(Src(d), "R")})

\* redsplice_read_cb.  The pipe may be full whenever something is in it.
redsplice_read_cb(c, d) ==
    LET evsrc == Ev(Src(d), "R")
        evdst == Ev(Dst(d), "W")
        k == [Touched(cl[c]) EXCEPT !.active = @ \ {evsrc}]
        sock == net[c][Src(d)]
    IN  /\ cl[c].state = "pump_active" /\ evsrc \in cl[c].on
        /\ \/ /\ Unread(c, Src(d)) > 0
              /\ \/ /\ k.pipe[d] # <<>>
                    /\ Becomes(c, SpliceFull(k, d))
                    /\ UNCHANGED net
                 \/ \E n \in 1..Unread(c, Src(d)) :
                       /\ Becomes(c, [k EXCEPT !.pipe[d] = @ \o Chunk(c, Src(d), n),
                                               !.active = @ \cup {evdst}])
                       /\ net' = [net EXCEPT ![c][Src(d)].read = @ + n]
           \/ /\ Unread(c, Src(d)) = 0 /\ sock.fin
              /\ cl' = [cl EXCEPT ![c] =
                           [Del(k, {evsrc}) EXCEPT !.shut[Src(d)] = @ \cup {"R"},
                                                   !.active = @ \cup {evdst}]]
              /\ UNCHANGED <<net, listener, backoff>>

------------------------------------------------------------------------------
(* The environment *)

\* An end sends a byte; the relay, once the proxy has answered.
Write(c, s) ==
    /\ cl[c].state # "free" /\ (s = "relay" => cl[c].state = "pump_active")
    /\ ~net[c][s].fin /\ net[c][s].pos < Bytes(c, s)
    /\ net' = [net EXCEPT ![c][s].pos = @ + 1]
    /\ UNCHANGED <<cl, listener, backoff>>

\* An end ends its stream.
End(c, s) ==
    /\ cl[c].state # "free" /\ ~net[c][s].fin /\ c \in Talkers
    /\ net' = [net EXCEPT ![c][s].fin = TRUE]
    /\ UNCHANGED <<cl, listener, backoff>>

\* A connection is reset: the callback that meets the error drops the client.
Reset(c) ==
    /\ cl[c].state # "free"
    /\ redsocks_drop_client(c)
    /\ SocketsClosed

\* Nothing has happened to c for connpres_idle_timeout seconds.
Rest(c) ==
    /\ cl[c].state # "free" /\ ~cl[c].old
    /\ cl' = [cl EXCEPT ![c].old = TRUE]
    /\ UNCHANGED <<net, listener, backoff>>

Next ==
    \/ AcceptFails \/ redsocks_accept_backoff
    \/ \E c \in Clients :
          \/ redsocks_accept_client(c) \/ redsocks_relay_connected(c) \/ socks5_read_cb(c)
          \/ ClientBuffers(c) \/ Reset(c) \/ Rest(c)
          \/ \E d \in Directions : redsplice_read_cb(c, d) \/ redsplice_write_cb(c, d)
          \/ \E s \in Ends : redsocks_event_error(c, s) \/ Write(c, s) \/ End(c, s)

Spec == Init /\ [][Next]_vars

\* libevent runs every event that is active or ready, and each end goes on
\* taking what is sent to it, or its connection fails.
FairSpec ==
    Spec /\ \A c \in Talkers, d \in Directions :
                WF_vars(redsplice_read_cb(c, d)) /\ WF_vars(redsplice_write_cb(c, d))

------------------------------------------------------------------------------
(* Properties *)

\* Each direction hands over the bytes that its source sent, in order and
\* without loss, those included that arrived before the pump was there.
Conserved ==
    \A c \in Clients, d \in Directions :
        LET k == cl[c]
        IN  k.state # "free" =>
                k.out[d] \o Pending(k, d) = [i \in 1..net[c][Src(d)].read |-> i]

\* The end of a stream is relayed after everything that was sent before it.
EndAfterData ==
    \A c \in Clients, d \in Directions :
        "W" \in cl[c].shut[Dst(d)] =>
            net[c][Src(d)].fin /\ Len(cl[c].out[d]) = net[c][Src(d)].pos

\* Backpressure is always taken back: whatever waits to be written waits for
\* an event of its destination, and a source with nothing in the way is read
\* until it ends.
SomebodyWaits ==
    \A c \in Clients, d \in Directions :
        LET k == cl[c]
        IN  k.state = "pump_active" =>
                \/ Ev(Dst(d), "W") \in k.on \cup k.active
                \/ Pending(k, d) = <<>> /\ Ev(Src(d), "R") \in k.on
                \/ "W" \in k.shut[Dst(d)]

\* Whoever is accepted is below the limit: the assertion of
\* redsocks_accept_client, which aborts the daemon, holds.
RoomForOneMore == listener => Conn(cl) < ConnMax

\* While accepting is paused by the timer nothing is accepted.
PausedMeansPaused == backoff => ~listener

\* Accepting stops without a timer only where idle clients are dropped by the
\* timer's own callback.
PauseHasAnEnd == ~listener' /\ ~backoff' /\ (listener \/ backoff) => Idle(cl) # {}

\* What an end sends to a pump is handed over, if its client is not dropped.
Delivered ==
    \A c \in Clients, d \in Directions : \A n \in 1..Bytes(c, Src(d)) :
        (cl[c].state = "pump_active" /\ net[c][Src(d)].pos >= n)
            ~> (Len(cl[c].out[d]) >= n \/ cl[c].state # "pump_active")

\* A connection that both ends have ended is closed.
BothEndedIsClosed ==
    \A c \in Clients :
        (cl[c].state = "pump_active" /\ \A s \in Ends : net[c][s].fin)
            ~> cl[c].state # "pump_active"

\* The pumps: bytes and ends are relayed in order, and a pump that has stopped
\* one of its events waits for another that starts it again.
PumpInv == TypeOK /\ Conserved /\ EndAfterData /\ SomebodyWaits

\* Accepting: below the limit, not while it is paused, and a pause has a timer to
\* end it except where that timer's callback drops idle clients.
Accepting == [][RoomForOneMore' /\ PausedMeansPaused' /\ PauseHasAnEnd]_vars

\* What is sent arrives, and what has ended is closed.
Relayed == Delivered /\ BothEndedIsClosed

==============================================================================
