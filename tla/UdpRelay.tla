------------------------------- MODULE UdpRelay -------------------------------
(***************************************************************************)
(* The UDP side of ss-local (shadowsocks-libev udprelay.c, cache.c).  Every *)
(* client gets a socket of its own towards the server, kept in a cache that *)
(* is ordered by the client's last packet; a socket is closed when it was  *)
(* idle, when the cache is full, or at the end.  The network may lose,     *)
(* delay, reorder and duplicate datagrams in both directions.              *)
(***************************************************************************)
EXTENDS Naturals, Sequences, TLC, Aead

CONSTANTS Clients,
          MAX_UDP_CONN_NUM,
          Timeout,          \* server_ctx->timeout, in ticks
          MaxPackets,       \* bound: packets of all clients
          MaxAnswers        \* bound: only so many of the packets are answered

ASSUME UdpRelayAssumption ==
    /\ MAX_UDP_CONN_NUM \in Nat /\ MAX_UDP_CONN_NUM >= 2
    /\ Timeout \in Nat \ {0} /\ MaxPackets \in Nat /\ MaxAnswers \in Nat

VARIABLES
    conn_cache,     \* remote_ctx_t of the clients, [src_addr, fd], in the cache's order
    sockets,        \* descriptors that are open
    active,         \* descriptors whose io and timer watchers run
    age,            \* ticks since a timer was started
    pp,             \* the filter of salts
    running,        \* between init_udprelay and free_udprelay
    packets,        \* packets of clients so far
    requests,       \* sealed datagrams on the way to the server
    answers,        \* sealed datagrams on the way back
    copies,         \* answers that were duplicated
    delivered,      \* history: clients that got answers, and whose answers they were
    lastSent,       \* history: number of a client's last packet
    idle,           \* history: ticks since a client's association was used
    added           \* history: salts added to the filter, in order

vars == <<conn_cache, sockets, active, age, pp, running, packets, requests,
          answers, copies, delivered, lastSent, idle, added>>

Fds == 1..MaxPackets

Symmetry == Permutations(Clients)

Init ==
    /\ conn_cache = <<>> /\ sockets = {} /\ active = {}
    /\ age = [f \in Fds |-> 0]
    /\ pp = ppbloom_init
    /\ running = TRUE
    /\ packets = 0
    /\ requests = {} /\ answers = {} /\ copies = {}
    /\ delivered = {}
    /\ lastSent = [x \in Clients |-> 0]
    /\ idle = [x \in Clients |-> 0]
    /\ added = <<>>

------------------------------------------------------------------------------
(* cache.c *)

\* HASH_FIND by the key that hash_key makes of the client's address: is there an
\* entry, and where in the cache's order.
Cached(cache, src) == \E i \in DOMAIN cache : cache[i].src_addr = src
Find(cache, src) == CHOOSE i \in DOMAIN cache : cache[i].src_addr = src

\* HASH_DEL of the i-th entry.
Delete(cache, i) == [j \in 1..(Len(cache) - 1) |-> cache[IF j < i THEN j ELSE j + 1]]

\* cache_lookup puts the entry it finds at the end.
cache_lookup(cache, src) ==
    LET i == Find(cache, src)
    IN  IF Cached(cache, src) THEN Append(Delete(cache, i), cache[i]) ELSE cache

\* cache_insert puts the new entry at the end.  When the cache is full, the
\* first entry is evicted and freed.
cache_insert(cache, entry) ==
    LET all == Append(cache, entry)
    IN  IF Len(all) >= MAX_UDP_CONN_NUM
        THEN [cache |-> Tail(all), freed |-> {Head(all).fd}]
        ELSE [cache |-> all, freed |-> {}]

\* Mutant: the entry is forgotten and not freed.
RemoveOnly(cache, src) == [cache |-> Delete(cache, Find(cache, src)), freed |-> {}]

\* cache_remove
cache_remove(cache, src) ==
    LET i == Find(cache, src)
    IN  IF Cached(cache, src)
        THEN [cache |-> Delete(cache, i), freed |-> {cache[i].fd}]
        ELSE [cache |-> cache, freed |-> {}]

\* free_cb, close_and_free_remote
Free(fds, on, open) ==
    /\ active' = on \ fds
    /\ sockets' = open \ fds

------------------------------------------------------------------------------
(* udprelay.c *)

\* The end of server_recv_cb: the packet is sealed and sent.
Forward(src, fd) ==
    LET salt == <<"request", packets + 1>>
        r == aead_encrypt_all(packets + 1, salt, pp)
    IN  /\ requests' = requests \cup {[dgram |-> r.buf, fd |-> fd, src |-> src]}
        /\ pp' = r.pp
        /\ added' = Append(added, salt)

Drop == UNCHANGED <<requests, pp, added>>

\* Mutant: a packet does not keep the association of its client alive.
AgainNever(fd) == age' = age

\* ev_timer_again
Again(fd) == age' = [age EXCEPT ![fd] = 0]

\* server_recv_cb for a client that has a socket.  The cache and the timer are
\* touched before a fragment is dropped.
ServerRecvHit(src, frag) ==
    /\ running /\ packets < MaxPackets
    /\ Cached(conn_cache, src)
    /\ LET fd == conn_cache[Find(conn_cache, src)].fd
       IN  /\ conn_cache' = cache_lookup(conn_cache, src)
           /\ Again(fd)
           /\ IF frag THEN Drop ELSE Forward(src, fd)
    /\ packets' = packets + 1
    /\ lastSent' = [lastSent EXCEPT ![src] = packets + 1]
    /\ idle' = [idle EXCEPT ![src] = 0]
    /\ UNCHANGED <<sockets, active, running, answers, copies, delivered>>

\* server_recv_cb for a client that has none: a socket is made, protected and
\* inserted, and its watchers are started.  A packet that is a fragment, that
\* gets no socket, or whose socket cannot be protected and is closed again, is
\* dropped and leaves the state as it was.
ServerRecvMiss(src) ==
    /\ running /\ packets < MaxPackets
    /\ ~Cached(conn_cache, src)
    /\ LET fd == packets + 1
           r == cache_insert(conn_cache, [src_addr |-> src, fd |-> fd])
       IN  /\ conn_cache' = r.cache
           /\ Free(r.freed, active \cup {fd}, sockets \cup {fd})
           /\ Again(fd)
           /\ Forward(src, fd)
    /\ packets' = packets + 1
    /\ lastSent' = [lastSent EXCEPT ![src] = packets + 1]
    /\ idle' = [idle EXCEPT ![src] = 0]
    /\ UNCHANGED <<running, answers, copies, delivered>>

\* decrypt_all of the cipher the profile uses.
decrypt_all(dgram, filter) == aead_decrypt_all(dgram, filter)

\* Mutant: the client of the last packet.
LastClient(fd) == conn_cache[Len(conn_cache)].src_addr

\* remote_ctx->src_addr
ClientOf(fd) == conn_cache[CHOOSE i \in DOMAIN conn_cache : conn_cache[i].fd = fd].src_addr

\* The end of remote_recv_cb: an answer is given to the client of the socket, and
\* the timer starts again, or it is dropped.
PassOn(a, ok) ==
    IF ok
    THEN /\ delivered' = delivered \cup {[to |-> ClientOf(a.fd), origin |-> a.src]}
         /\ idle' = [idle EXCEPT ![ClientOf(a.fd)] = 0]
         /\ Again(a.fd)
    ELSE UNCHANGED <<delivered, idle, age>>

\* remote_recv_cb: an answer that does not open is dropped; so is one whose
\* header does not parse or that the client's socket does not take.  The network
\* may deliver the answer a second time.
remote_recv_cb(a, taken) ==
    /\ a \in answers /\ a.fd \in active
    /\ LET r == decrypt_all(a.dgram, pp)
       IN  /\ pp' = r.pp
           /\ added' = IF r.err = "OK" THEN Append(added, a.dgram.salt) ELSE added
           /\ PassOn(a, r.err = "OK" /\ taken)
    /\ \/ answers' = answers \ {a} /\ copies' = copies
       \/ a \notin copies /\ copies' = copies \cup {a} /\ answers' = answers
    /\ UNCHANGED <<conn_cache, sockets, active, running, packets, requests, lastSent>>

\* remote_timeout_cb: the entry is found again by the client's address.
remote_timeout_cb(fd) ==
    /\ fd \in active /\ age[fd] = Timeout
    /\ LET r == cache_remove(conn_cache, ClientOf(fd))
       IN  /\ conn_cache' = r.cache
           /\ Free(r.freed, active, sockets)
    /\ UNCHANGED <<age, pp, running, packets, requests, answers, copies, delivered,
                   lastSent, idle, added>>

\* free_udprelay.  What is still on its way has nowhere to go.
free_udprelay ==
    /\ running
    /\ running' = FALSE
    /\ conn_cache' = <<>>
    /\ Free({conn_cache[i].fd : i \in DOMAIN conn_cache}, active, sockets)
    /\ requests' = {} /\ answers' = {}
    /\ UNCHANGED <<age, pp, packets, copies, delivered, lastSent, idle, added>>

------------------------------------------------------------------------------
(* The server and the network *)

\* The server answers a request, or it is lost on its way.
Answer(q) ==
    /\ q \in requests /\ running /\ q.dgram.packet <= MaxAnswers
    /\ LET r == aead_encrypt_all(q.dgram.packet, <<"answer", q.dgram.packet>>, ppbloom_init)
       IN  answers' = answers \cup {[dgram |-> r.buf, fd |-> q.fd, src |-> q.src]}
    /\ requests' = requests \ {q}
    /\ UNCHANGED <<conn_cache, sockets, active, age, pp, running, packets, copies, delivered,
                   lastSent, idle, added>>

\* Time: a timer that expires is served before time goes on.
Tick ==
    /\ active # {} /\ \A f \in active : age[f] < Timeout
    /\ age' = [f \in Fds |-> IF f \in active THEN age[f] + 1 ELSE age[f]]
    /\ idle' = [x \in Clients |-> IF Cached(conn_cache, x) /\ idle[x] <= Timeout
                                 THEN idle[x] + 1 ELSE idle[x]]
    /\ UNCHANGED <<conn_cache, sockets, active, pp, running, packets, requests, answers,
                   copies, delivered, lastSent, added>>

Next ==
    \/ \E src \in Clients, frag \in BOOLEAN : ServerRecvHit(src, frag)
    \/ \E src \in Clients : ServerRecvMiss(src)
    \/ \E a \in answers, taken \in BOOLEAN : remote_recv_cb(a, taken)
    \/ \E fd \in Fds : remote_timeout_cb(fd)
    \/ free_udprelay
    \/ \E q \in requests : Answer(q)
    \/ Tick

Spec == Init /\ [][Next]_vars

------------------------------------------------------------------------------
(* Properties *)

\* The types of the state.  The cache never holds MAX_UDP_CONN_NUM sockets when
\* a callback has returned.
TypeOK ==
    /\ conn_cache \in Seq([src_addr : Clients, fd : Fds])
    /\ Len(conn_cache) < MAX_UDP_CONN_NUM
    /\ sockets \subseteq Fds /\ active \subseteq Fds
    /\ age \in [Fds -> 0..Timeout]
    /\ running \in BOOLEAN /\ packets \in 0..MaxPackets

\* A socket is open, and its watchers run, exactly as long as it is in the cache:
\* no descriptor leaks, and no callback finds a context that was freed.
NothingDangles ==
    LET cached == {conn_cache[i].fd : i \in DOMAIN conn_cache}
    IN  sockets = cached /\ active = cached

\* A client has at most one socket, so that the entry remote_timeout_cb finds by
\* address is the one whose timer expired.
OneSocketPerClient ==
    \A i, j \in DOMAIN conn_cache : conn_cache[i].src_addr = conn_cache[j].src_addr => i = j

\* Who is evicted from a full cache is the client that has been silent longest:
\* the cache is ordered by the clients' last packets.
LeastRecentFirst ==
    \A i, j \in DOMAIN conn_cache :
        i < j => lastSent[conn_cache[i].src_addr] < lastSent[conn_cache[j].src_addr]

\* An answer goes to the client whose packet was answered, also when it comes
\* after that client's socket was closed and others were opened.
AnswersReachTheirClient ==
    \A d \in delivered : d.to = d.origin

\* decrypt_all: a datagram that the network duplicates is accepted once, as long
\* as its salt is among the last Entries.
NotAcceptedTwice ==
    added' # added =>
        \A i \in DOMAIN added : i + Entries > Len(added) => added[i] # added'[Len(added')]

\* remote_timeout_cb: an association is closed for idleness only if for the whole
\* timeout its client sent nothing and got nothing.
OnlyIdleTimesOut ==
    [][\A i \in DOMAIN conn_cache :
           running' /\ packets' = packets /\ conn_cache[i].fd \notin sockets'
               => idle[conn_cache[i].src_addr] = Timeout]_vars

\* A socket that neither its client nor an accepted answer used for the timeout
\* is closed, whatever else arrives on it.
IdleSocketsClosed ==
    \A i \in DOMAIN conn_cache : idle[conn_cache[i].src_addr] <= Timeout

\* The cache of associations: in its order, within its size, one entry for each
\* client, and in step with the sockets, the watchers and the timers.
CacheInv ==
    /\ TypeOK /\ NothingDangles /\ OneSocketPerClient
    /\ LeastRecentFirst /\ IdleSocketsClosed

\* An answer reaches the client that asked, and it reaches it once.
AnswersDelivered == [][AnswersReachTheirClient' /\ NotAcceptedTwice]_vars

==============================================================================
