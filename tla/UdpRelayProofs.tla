---------------------------- MODULE UdpRelayProofs ----------------------------
(***************************************************************************)
(* What TLAPS proves about UdpRelay, for any set of clients, any size of   *)
(* the cache and of the filter, any timeout and any number of packets.     *)
(***************************************************************************)
EXTENDS UdpRelay, SequenceTheorems, TLAPS

(***************************************************************************)
(* The inductive invariant has three parts.  Associations: CacheInv holds  *)
(* because the socket of an entry is no older than the last packet, is in  *)
(* one entry only, and its timer shows how long the client was idle.       *)
(* Datagrams: what is on its way names the client its socket was made for, *)
(* since no descriptor is used twice.  Filter: see FilterKeeps below.      *)
(***************************************************************************)
Entry == [src_addr : Clients, fd : Fds]

CachedFds == {conn_cache[i].fd : i \in DOMAIN conn_cache}

HistoryType ==
    /\ lastSent \in [Clients -> Nat] /\ \A x \in Clients : lastSent[x] <= packets
    /\ idle \in [Clients -> Nat]

OneClientPerSocket ==
    \A i, j \in DOMAIN conn_cache : conn_cache[i].fd = conn_cache[j].fd => i = j

NotFromTheFuture == \A i \in DOMAIN conn_cache : conn_cache[i].fd <= packets

TimersShowIdleness ==
    \A i \in DOMAIN conn_cache : idle[conn_cache[i].src_addr] = age[conn_cache[i].fd]

AssocInv ==
    /\ TypeOK /\ HistoryType /\ NothingDangles /\ OneSocketPerClient /\ LeastRecentFirst
    /\ OneClientPerSocket /\ NotFromTheFuture /\ TimersShowIdleness

\* A datagram on its way carries the socket that was made for its client.
Addressed(d) ==
    /\ d.fd \in Fds /\ d.fd <= packets /\ d.src \in Clients
    /\ d.dgram.packet \in Nat
    /\ \A i \in DOMAIN conn_cache : conn_cache[i].fd = d.fd => conn_cache[i].src_addr = d.src

DatagramInv ==
    /\ \A q \in requests : Addressed(q)
    /\ \A a \in answers : Addressed(a) /\ a.dgram.salt = <<"answer", a.dgram.packet>>
    /\ AnswersReachTheirClient

\* The current filter holds the last bloom_count salts that were added and the
\* other one the Entries salts before them.
FilterKeeps(f, salts) ==
    LET c == f.bloom_count[f.current]
        n == Len(salts)
    IN  /\ c < Entries
        /\ \A i \in 1..n :
              /\ i + c > n => salts[i] \in f.bloom[f.current]
              /\ i + c <= n /\ i + c + Entries > n => salts[i] \in f.bloom[1 - f.current]

Salts == {"request", "answer"} \X Nat

FilterType(f) ==
    /\ f \in [bloom : [{PING, PONG} -> SUBSET Salts],
              bloom_count : [{PING, PONG} -> Nat],
              current : {PING, PONG}]
    /\ f.bloom_count[1 - f.current] = 0

SaltInv ==
    /\ added \in Seq(Salts)
    /\ FilterType(pp) /\ FilterKeeps(pp, added)
    /\ \A i \in DOMAIN added : added[i][1] = "request" => added[i][2] <= packets

------------------------------------------------------------------------------
(* The cache's operators *)

\* HASH_FIND finds an entry of the client if there is one.
LEMMA FindEntry ==
    ASSUME NEW cache \in Seq(Entry), NEW src, Cached(cache, src)
    PROVE  /\ Find(cache, src) \in 1..Len(cache)
           /\ cache[Find(cache, src)].src_addr = src
  BY DEF Cached, Find

\* HASH_DEL keeps the other entries in their order.
LEMMA DeleteEntry ==
    ASSUME NEW cache \in Seq(Entry), NEW i \in 1..Len(cache)
    PROVE  /\ Delete(cache, i) \in Seq(Entry) /\ Len(Delete(cache, i)) = Len(cache) - 1
           /\ DOMAIN Delete(cache, i) = 1..(Len(cache) - 1)
           /\ \A j \in 1..(Len(cache) - 1) :
                 Delete(cache, i)[j] = cache[IF j < i THEN j ELSE j + 1]
<1>1. Len(cache) \in Nat /\ \A j \in 1..Len(cache) : cache[j] \in Entry
  BY LenProperties, ElementOfSeq
<1>2. Len(cache) - 1 \in Nat
  BY <1>1
<1>3. \A j \in 1..(Len(cache) - 1) : cache[IF j < i THEN j ELSE j + 1] \in Entry
  BY <1>1
<1>4. QED
  BY <1>2, <1>3 DEF Delete

\* cache_lookup moves the entry it finds to the end.
LEMMA LookupEntry ==
    ASSUME NEW cache \in Seq(Entry), NEW src, Cached(cache, src)
    PROVE  LET i == Find(cache, src)
               n == Len(cache)
               r == cache_lookup(cache, src)
           IN  /\ r \in Seq(Entry) /\ Len(r) = n /\ DOMAIN r = 1..n
               /\ r[n] = cache[i]
               /\ \A j \in 1..(n - 1) : r[j] = cache[IF j < i THEN j ELSE j + 1]
<1> DEFINE i == Find(cache, src)
           d == Delete(cache, i)
<1>1. i \in 1..Len(cache) /\ cache[i] \in Entry /\ Len(cache) \in Nat
  BY FindEntry, LenProperties, ElementOfSeq
<1>2. /\ d \in Seq(Entry) /\ Len(d) = Len(cache) - 1
      /\ \A j \in 1..(Len(cache) - 1) : d[j] = cache[IF j < i THEN j ELSE j + 1]
  BY <1>1, DeleteEntry
<1>3. cache_lookup(cache, src) = Append(d, cache[i])
  BY DEF cache_lookup
<1> HIDE DEF d, i
<1>4. /\ Append(d, cache[i]) \in Seq(Entry) /\ Len(Append(d, cache[i])) = Len(cache)
      /\ DOMAIN Append(d, cache[i]) = 1..Len(cache)
      /\ Append(d, cache[i])[Len(cache)] = cache[i]
      /\ \A j \in 1..(Len(cache) - 1) : Append(d, cache[i])[j] = d[j]
  BY <1>1, <1>2, AppendProperties
<1>5. QED
  BY <1>2, <1>3, <1>4 DEF i

\* cache_insert appends the new entry, and evicts the first of a full cache.
LEMMA InsertEntry ==
    ASSUME NEW cache \in Seq(Entry), NEW e \in Entry, Len(cache) < MAX_UDP_CONN_NUM
    PROVE  LET n == Len(cache)
               r == cache_insert(cache, e).cache
               freed == cache_insert(cache, e).freed
           IN  \/ /\ r \in Seq(Entry) /\ Len(r) = n + 1 /\ n + 1 < MAX_UDP_CONN_NUM
                  /\ DOMAIN r = 1..(n + 1)
                  /\ freed = {}
                  /\ r[n + 1] = e
                  /\ \A j \in 1..n : r[j] = cache[j]
               \/ /\ r \in Seq(Entry) /\ Len(r) = n /\ n >= 1
                  /\ DOMAIN r = 1..n
                  /\ freed = {cache[1].fd}
                  /\ r[n] = e
                  /\ \A j \in 1..(n - 1) : r[j] = cache[j + 1]
<1> DEFINE all == Append(cache, e)
<1>1. /\ Len(cache) \in Nat
      /\ all \in Seq(Entry) /\ Len(all) = Len(cache) + 1
      /\ DOMAIN all = 1..(Len(cache) + 1)
      /\ all[Len(cache) + 1] = e
      /\ \A j \in 1..Len(cache) : all[j] = cache[j]
  BY LenProperties, AppendProperties
<1>2. cache_insert(cache, e) = IF Len(all) >= MAX_UDP_CONN_NUM
                               THEN [cache |-> Tail(all), freed |-> {Head(all).fd}]
                               ELSE [cache |-> all, freed |-> {}]
  BY DEF cache_insert
<1> HIDE DEF all
<1>3. CASE Len(all) >= MAX_UDP_CONN_NUM
  <2>1. Len(cache) >= 1 /\ all # <<>>
    BY <1>1, <1>3, UdpRelayAssumption
  <2>2. /\ Tail(all) \in Seq(Entry) /\ Len(Tail(all)) = Len(cache)
        /\ Head(all) = cache[1]
        /\ \A j \in 1..Len(cache) : Tail(all)[j] = all[j + 1]
    BY <1>1, <2>1, HeadTailProperties
  <2>3. DOMAIN Tail(all) = 1..Len(cache)
    BY <2>2, LenProperties
  <2>4. \A j \in 1..(Len(cache) - 1) : Tail(all)[j] = cache[j + 1]
    BY <1>1, <2>2
  <2>5. Tail(all)[Len(cache)] = e
    BY <1>1, <2>1, <2>2
  <2>6. QED
    BY <1>1, <1>2, <1>3, <2>1, <2>2, <2>3, <2>4, <2>5
<1>4. CASE Len(all) < MAX_UDP_CONN_NUM
  BY <1>1, <1>2, <1>4, UdpRelayAssumption
<1>5. QED
  BY <1>1, <1>3, <1>4, UdpRelayAssumption

\* A socket leads back to its client.
LEMMA ClientOfEntry ==
    ASSUME TypeOK, OneClientPerSocket, NEW i \in DOMAIN conn_cache
    PROVE  ClientOf(conn_cache[i].fd) = conn_cache[i].src_addr
  BY DEF OneClientPerSocket, ClientOf
------------------------------------------------------------------------------
(* The associations *)

\* What the types say of the cache, the counters and the timers.
LEMMA AssocTypes ==
    ASSUME AssocInv
    PROVE  /\ conn_cache \in Seq(Entry) /\ Len(conn_cache) \in Nat
           /\ DOMAIN conn_cache = 1..Len(conn_cache)
           /\ \A j \in 1..Len(conn_cache) : /\ conn_cache[j] \in Entry
                                             /\ conn_cache[j].src_addr \in Clients
                                             /\ conn_cache[j].fd \in Fds
           /\ packets \in Nat /\ packets <= MaxPackets /\ MaxPackets \in Nat
           /\ age \in [Fds -> 0..Timeout] /\ Timeout \in Nat
           /\ idle \in [Clients -> Nat] /\ lastSent \in [Clients -> Nat]
           /\ \A x \in Clients : lastSent[x] <= packets
<1>1. conn_cache \in Seq(Entry)
  BY DEF AssocInv, TypeOK, Entry
<1>2. Len(conn_cache) \in Nat /\ DOMAIN conn_cache = 1..Len(conn_cache)
  BY <1>1, LenProperties
<1>3. \A j \in 1..Len(conn_cache) : conn_cache[j] \in Entry
  BY <1>1, ElementOfSeq
<1>4. \A e \in Entry : e.src_addr \in Clients /\ e.fd \in Fds
  BY DEF Entry
<1>5. /\ packets \in Nat /\ packets <= MaxPackets /\ MaxPackets \in Nat
      /\ age \in [Fds -> 0..Timeout] /\ Timeout \in Nat
      /\ idle \in [Clients -> Nat] /\ lastSent \in [Clients -> Nat]
      /\ \A x \in Clients : lastSent[x] <= packets
  BY UdpRelayAssumption DEF AssocInv, TypeOK, HistoryType
<1>6. QED
  BY <1>1, <1>2, <1>3, <1>4, <1>5

\* ev_timer_again keeps the timers in their type.
LEMMA AgainType ==
    ASSUME NEW fd, age \in [Fds -> 0..Timeout], Again(fd)
    PROVE  age' \in [Fds -> 0..Timeout]
<1>1. 0 \in 0..Timeout
  BY UdpRelayAssumption
<1>2. QED
  BY <1>1 DEF Again

\* server_recv_cb for a client with a socket: its entry moves to the end, where
\* the client with the latest packet belongs, and its timer starts again.
LEMMA HitKeepsAssoc ==
    ASSUME AssocInv, NEW src \in Clients, NEW frag \in BOOLEAN, ServerRecvHit(src, frag)
    PROVE  AssocInv'
<1> DEFINE n == Len(conn_cache)
           i == Find(conn_cache, src)
           fd == conn_cache[i].fd
<1>1. /\ conn_cache \in Seq(Entry) /\ n \in Nat /\ DOMAIN conn_cache = 1..n
      /\ \A j \in 1..n : conn_cache[j].src_addr \in Clients /\ conn_cache[j].fd \in Fds
  BY AssocTypes
<1>2. i \in 1..n /\ conn_cache[i].src_addr = src
  BY <1>1, FindEntry DEF ServerRecvHit
<1>3. /\ conn_cache' \in Seq(Entry) /\ Len(conn_cache') = n /\ DOMAIN conn_cache' = 1..n
      /\ conn_cache'[n] = conn_cache[i]
      /\ \A j \in 1..(n - 1) : conn_cache'[j] = conn_cache[IF j < i THEN j ELSE j + 1]
  BY <1>1, LookupEntry DEF ServerRecvHit
<1>4. /\ age' = [age EXCEPT ![fd] = 0] /\ idle' = [idle EXCEPT ![src] = 0]
      /\ lastSent' = [lastSent EXCEPT ![src] = packets + 1]
      /\ packets' = packets + 1 /\ packets < MaxPackets
      /\ UNCHANGED <<sockets, active, running>>
  BY DEF ServerRecvHit, Again
<1>5. /\ packets \in Nat /\ packets <= MaxPackets /\ MaxPackets \in Nat
      /\ age \in [Fds -> 0..Timeout] /\ Timeout \in Nat
      /\ idle \in [Clients -> Nat] /\ lastSent \in [Clients -> Nat]
      /\ \A x \in Clients : lastSent[x] <= packets
  BY AssocTypes
<1> DEFINE Was(j) == IF j = n THEN i ELSE IF j < i THEN j ELSE j + 1
<1> HIDE DEF n, i, fd
<1>was. /\ \A j \in 1..n : Was(j) \in 1..n /\ conn_cache'[j] = conn_cache[Was(j)]
        /\ \A j, k \in 1..n : Was(j) = Was(k) => j = k
  BY <1>1, <1>2, <1>3
<1>back. \A k \in 1..n : \E j \in 1..n : conn_cache'[j] = conn_cache[k]
  <2> SUFFICES ASSUME NEW k \in 1..n PROVE \E j \in 1..n : conn_cache'[j] = conn_cache[k]
    OBVIOUS
  <2> DEFINE j == IF k = i THEN n ELSE IF k < i THEN k ELSE k - 1
  <2>1. j \in 1..n /\ Was(j) = k
    BY <1>1, <1>2
  <2>2. QED
    BY <1>was, <2>1
<1> HIDE DEF Was
<1>6. TypeOK' /\ HistoryType'
  <2>1. Len(conn_cache') < MAX_UDP_CONN_NUM /\ conn_cache' \in Seq([src_addr : Clients, fd : Fds])
    BY <1>3 DEF AssocInv, TypeOK, n, Entry
  <2>2. age' \in [Fds -> 0..Timeout]
    BY <1>5, AgainType DEF ServerRecvHit
  <2>3. packets' \in 0..MaxPackets
    BY <1>4, <1>5
  <2>4. HistoryType'
    BY <1>4, <1>5 DEF HistoryType
  <2>5. QED
    BY <1>4, <2>1, <2>2, <2>3, <2>4 DEF AssocInv, TypeOK
<1>7. NothingDangles'
  <2>1. CachedFds' = CachedFds
    <3>1. ASSUME NEW f \in CachedFds' PROVE f \in CachedFds
      <4>1. PICK j \in 1..n : f = conn_cache'[j].fd
        BY <1>3 DEF CachedFds
      <4>2. QED
        BY <1>1, <1>was, <4>1 DEF CachedFds
    <3>2. ASSUME NEW f \in CachedFds PROVE f \in CachedFds'
      <4>1. PICK k \in 1..n : f = conn_cache[k].fd
        BY <1>1 DEF CachedFds
      <4>2. PICK j \in 1..n : conn_cache'[j] = conn_cache[k]
        BY <1>back
      <4>3. QED
        BY <1>3, <4>1, <4>2 DEF CachedFds
    <3>3. QED
      BY <3>1, <3>2
  <2>2. QED
    BY <1>4, <2>1 DEF AssocInv, NothingDangles, CachedFds
<1>8. OneSocketPerClient'
  BY <1>1, <1>3, <1>was DEF AssocInv, OneSocketPerClient
<1>9. OneClientPerSocket'
  BY <1>1, <1>3, <1>was DEF AssocInv, OneClientPerSocket
<1>10. LeastRecentFirst'
  <2> SUFFICES ASSUME NEW j \in 1..n, NEW k \in 1..n, j < k
               PROVE  lastSent'[conn_cache'[j].src_addr] < lastSent'[conn_cache'[k].src_addr]
    BY <1>3 DEF LeastRecentFirst
  <2> DEFINE J == IF j < i THEN j ELSE j + 1
  <2>1. j \in 1..(n - 1) /\ J \in 1..n /\ J # i /\ conn_cache'[j] = conn_cache[J]
    BY <1>1, <1>2, <1>3
  <2>2. conn_cache[J].src_addr \in Clients /\ conn_cache[J].src_addr # src
    BY <1>1, <1>2, <2>1 DEF AssocInv, OneSocketPerClient
  <2>3. lastSent'[conn_cache'[j].src_addr] = lastSent[conn_cache[J].src_addr]
    BY <1>4, <1>5, <2>1, <2>2
  <2>4. CASE k = n
    BY <1>2, <1>3, <1>4, <1>5, <2>2, <2>3, <2>4
  <2>5. CASE k < n
    <3> DEFINE K == IF k < i THEN k ELSE k + 1
    <3>1. K \in 1..n /\ K # i /\ conn_cache'[k] = conn_cache[K] /\ J < K
      BY <1>1, <1>2, <1>3, <2>5
    <3>2. conn_cache[K].src_addr \in Clients /\ conn_cache[K].src_addr # src
      BY <1>1, <1>2, <3>1 DEF AssocInv, OneSocketPerClient
    <3>3. lastSent'[conn_cache'[k].src_addr] = lastSent[conn_cache[K].src_addr]
      BY <1>4, <1>5, <3>1, <3>2
    <3>4. QED
      BY <1>1, <2>1, <2>3, <3>1, <3>3 DEF AssocInv, LeastRecentFirst
  <2>6. QED
    BY <1>1, <2>4, <2>5
<1>11. NotFromTheFuture'
  <2> SUFFICES ASSUME NEW j \in 1..n PROVE conn_cache'[j].fd <= packets'
    BY <1>3 DEF NotFromTheFuture
  <2>1. conn_cache'[j].fd \in Fds /\ conn_cache'[j].fd <= packets
    BY <1>1, <1>was DEF AssocInv, NotFromTheFuture
  <2>2. QED
    BY <1>4, <1>5, <2>1 DEF Fds
<1>12. TimersShowIdleness'
  <2> SUFFICES ASSUME NEW j \in 1..n
               PROVE  idle'[conn_cache'[j].src_addr] = age'[conn_cache'[j].fd]
    BY <1>3 DEF TimersShowIdleness
  <2>1. PICK k \in 1..n : conn_cache'[j] = conn_cache[k]
    BY <1>1, <1>2, <1>3
  <2>2. conn_cache[k].src_addr \in Clients /\ conn_cache[k].fd \in Fds
    BY <1>1
  <2>3. (conn_cache[k].src_addr = src <=> k = i) /\ (conn_cache[k].fd = fd <=> k = i)
    BY <1>1, <1>2 DEF AssocInv, OneSocketPerClient, OneClientPerSocket, fd
  <2>4. idle[conn_cache[k].src_addr] = age[conn_cache[k].fd]
    BY <1>1 DEF AssocInv, TimersShowIdleness
  <2>5. QED
    BY <1>4, <1>5, <2>1, <2>2, <2>3, <2>4
<1>13. QED
  BY <1>6, <1>7, <1>8, <1>9, <1>10, <1>11, <1>12 DEF AssocInv
\* server_recv_cb for a client without a socket: a descriptor that was never used
\* goes to the end, and the first entry goes if the cache is full.
LEMMA MissKeepsAssoc ==
    ASSUME AssocInv, NEW src \in Clients, ServerRecvMiss(src)
    PROVE  AssocInv'
<1> DEFINE n == Len(conn_cache)
           fd == packets + 1
           e == [src_addr |-> src, fd |-> fd]
           r == cache_insert(conn_cache, e)
<1>1. /\ conn_cache \in Seq(Entry) /\ n \in Nat /\ DOMAIN conn_cache = 1..n
      /\ \A j \in 1..n : conn_cache[j].src_addr \in Clients /\ conn_cache[j].fd \in Fds
  BY AssocTypes
<1>2. /\ packets \in Nat /\ packets <= MaxPackets /\ MaxPackets \in Nat
      /\ age \in [Fds -> 0..Timeout] /\ Timeout \in Nat
      /\ idle \in [Clients -> Nat] /\ lastSent \in [Clients -> Nat]
      /\ \A x \in Clients : lastSent[x] <= packets
  BY AssocTypes
<1>3. /\ Again(fd) /\ age' = [age EXCEPT ![fd] = 0] /\ idle' = [idle EXCEPT ![src] = 0]
      /\ lastSent' = [lastSent EXCEPT ![src] = packets + 1]
      /\ packets' = packets + 1 /\ packets < MaxPackets
      /\ conn_cache' = r.cache
      /\ active' = (active \cup {fd}) \ r.freed /\ sockets' = (sockets \cup {fd}) \ r.freed
      /\ UNCHANGED running
  BY DEF ServerRecvMiss, Again, Free
<1>4. fd \in Fds /\ e \in Entry /\ e.src_addr = src /\ e.fd = fd
  BY <1>2, <1>3 DEF Fds, Entry
<1>5. Len(conn_cache) < MAX_UDP_CONN_NUM
  BY DEF AssocInv, TypeOK
<1> HIDE DEF e
<1>6. PICK s \in {0, 1} :
         /\ conn_cache' \in Seq(Entry) /\ Len(conn_cache') = (n - s) + 1
         /\ (n - s) + 1 < MAX_UDP_CONN_NUM /\ n - s \in Nat
         /\ DOMAIN conn_cache' = 1..((n - s) + 1)
         /\ r.freed = {conn_cache[j].fd : j \in 1..s}
         /\ conn_cache'[(n - s) + 1] = e
         /\ \A j \in 1..(n - s) : conn_cache'[j] = conn_cache[j + s]
  <2>1. \/ /\ r.cache \in Seq(Entry) /\ Len(r.cache) = n + 1 /\ n + 1 < MAX_UDP_CONN_NUM
           /\ DOMAIN r.cache = 1..(n + 1)
           /\ r.freed = {}
           /\ r.cache[n + 1] = e
           /\ \A j \in 1..n : r.cache[j] = conn_cache[j]
        \/ /\ r.cache \in Seq(Entry) /\ Len(r.cache) = n /\ n >= 1
           /\ DOMAIN r.cache = 1..n
           /\ r.freed = {conn_cache[1].fd}
           /\ r.cache[n] = e
           /\ \A j \in 1..(n - 1) : r.cache[j] = conn_cache[j + 1]
    BY <1>1, <1>4, <1>5, InsertEntry
  <2> HIDE DEF n, r
  <2>2. CASE /\ r.cache \in Seq(Entry) /\ Len(r.cache) = n + 1 /\ n + 1 < MAX_UDP_CONN_NUM
             /\ DOMAIN r.cache = 1..(n + 1)
             /\ r.freed = {}
             /\ r.cache[n + 1] = e
             /\ \A j \in 1..n : r.cache[j] = conn_cache[j]
    <3> WITNESS 0 \in {0, 1}
    <3>1. {conn_cache[j].fd : j \in 1..0} = {}
      OBVIOUS
    <3>2. QED
      BY <1>1, <1>3, <2>2, <3>1
  <2>3. CASE /\ r.cache \in Seq(Entry) /\ Len(r.cache) = n /\ n >= 1
             /\ DOMAIN r.cache = 1..n
             /\ r.freed = {conn_cache[1].fd}
             /\ r.cache[n] = e
             /\ \A j \in 1..(n - 1) : r.cache[j] = conn_cache[j + 1]
    <3> WITNESS 1 \in {0, 1}
    <3>1. {conn_cache[j].fd : j \in 1..1} = {conn_cache[1].fd}
      OBVIOUS
    <3>2. QED
      BY <1>1, <1>3, <1>5, <2>3, <3>1 DEF n
  <2>4. QED
    BY <2>1, <2>2, <2>3
<1> DEFINE m == (n - s) + 1
<1>7. /\ \A j \in 1..m : j # m => j \in 1..(n - s) /\ j + s \in 1..n /\ j + s > s
      /\ m \in 1..m /\ \A j \in 1..n : j > s => j - s \in 1..(n - s)
  BY <1>1, <1>6
<1>8. /\ \A j \in 1..n : conn_cache[j].src_addr # src
      /\ \A j \in 1..n : conn_cache[j].fd <= packets /\ conn_cache[j].fd # fd
  <2>1. \A j \in 1..n : conn_cache[j].src_addr # src
    BY <1>1 DEF ServerRecvMiss, Cached
  <2>2. \A j \in 1..n : conn_cache[j].fd <= packets
    BY <1>1 DEF AssocInv, NotFromTheFuture
  <2>3. \A j \in 1..n : conn_cache[j].fd \in Nat
    BY <1>1, <1>2 DEF Fds
  <2>4. QED
    BY <1>2, <2>1, <2>2, <2>3
<1> HIDE DEF n, r
<1>9. TypeOK' /\ HistoryType'
  <2>1. Len(conn_cache') < MAX_UDP_CONN_NUM /\ conn_cache' \in Seq([src_addr : Clients, fd : Fds])
    BY <1>6 DEF Entry
  <2>2. age' \in [Fds -> 0..Timeout]
    BY <1>2, <1>3, AgainType
  <2>3. packets' \in 0..MaxPackets
    BY <1>2, <1>3
  <2>4. HistoryType'
    BY <1>2, <1>3 DEF HistoryType
  <2>5. sockets' \subseteq Fds /\ active' \subseteq Fds /\ running' \in BOOLEAN
    BY <1>3, <1>4 DEF AssocInv, TypeOK
  <2>6. QED
    BY <2>1, <2>2, <2>3, <2>4, <2>5 DEF TypeOK
<1> HIDE DEF fd
<1>10. NothingDangles'
  <2>1. CachedFds' = (CachedFds \cup {fd}) \ r.freed
    <3>1. ASSUME NEW f \in CachedFds' PROVE f \in (CachedFds \cup {fd}) \ r.freed
      <4>1. PICK j \in 1..m : f = conn_cache'[j].fd
        BY <1>6 DEF CachedFds
      <4>2. CASE j = m
        <5>1. f = fd
          BY <1>4, <1>6, <4>1, <4>2
        <5>2. fd \notin r.freed
          <6>1. \A k \in 1..s : k \in 1..n
            BY <1>1, <1>6 DEF n
          <6>2. QED
            BY <1>6, <1>8, <6>1
        <5>3. QED
          BY <5>1, <5>2
      <4>3. CASE j # m
        <5>1. j + s \in 1..n /\ j + s > s /\ f = conn_cache[j + s].fd
          BY <1>6, <1>7, <4>1, <4>3
        <5>2. \A k \in 1..s : k \in 1..n /\ k # j + s
          BY <1>1, <1>6, <5>1 DEF n
        <5>3. f \notin r.freed
          BY <1>1, <1>6, <5>1, <5>2 DEF AssocInv, OneClientPerSocket
        <5>4. QED
          BY <1>1, <5>1, <5>3 DEF CachedFds
      <4>4. QED
        BY <4>2, <4>3
    <3>2. ASSUME NEW f \in (CachedFds \cup {fd}) \ r.freed PROVE f \in CachedFds'
      <4>1. CASE f = fd
        BY <1>4, <1>6, <1>7, <4>1 DEF CachedFds
      <4>2. CASE f # fd
        <5>1. PICK k \in 1..n : f = conn_cache[k].fd
          BY <1>1, <3>2, <4>2 DEF CachedFds
        <5>2. k > s
          BY <1>1, <1>6, <3>2, <5>1 DEF n
        <5>3. k - s \in 1..(n - s) /\ (k - s) + s = k /\ k - s \in 1..m
          BY <1>1, <1>6, <1>7, <5>2 DEF n
        <5>4. conn_cache'[k - s].fd = f
          BY <1>6, <5>1, <5>3
        <5>5. QED
          BY <1>6, <5>3, <5>4 DEF CachedFds
      <4>3. QED
        BY <4>1, <4>2
    <3>3. QED
      BY <3>1, <3>2
  <2>2. sockets = CachedFds /\ active = CachedFds
    BY DEF AssocInv, NothingDangles, CachedFds
  <2>3. QED
    BY <1>3, <2>1, <2>2 DEF NothingDangles, CachedFds
<1>11. OneSocketPerClient'
  <2> SUFFICES ASSUME NEW j \in 1..m, NEW k \in 1..m,
                      conn_cache'[j].src_addr = conn_cache'[k].src_addr
               PROVE  j = k
    BY <1>6 DEF OneSocketPerClient
  <2>1. CASE j # m /\ k # m
    <3>1. j + s \in 1..n /\ k + s \in 1..n /\ conn_cache[j + s].src_addr = conn_cache[k + s].src_addr
      BY <1>6, <1>7, <2>1
    <3>2. j + s = k + s
      BY <1>1, <3>1 DEF AssocInv, OneSocketPerClient
    <3>3. QED
      BY <3>2, <1>6
  <2>2. CASE j = m \/ k = m
    BY <1>4, <1>6, <1>7, <1>8, <2>2
  <2>3. QED
    BY <2>1, <2>2
<1>12. OneClientPerSocket'
  <2> SUFFICES ASSUME NEW j \in 1..m, NEW k \in 1..m, conn_cache'[j].fd = conn_cache'[k].fd
               PROVE  j = k
    BY <1>6 DEF OneClientPerSocket
  <2>1. CASE j # m /\ k # m
    <3>1. j + s \in 1..n /\ k + s \in 1..n /\ conn_cache[j + s].fd = conn_cache[k + s].fd
      BY <1>6, <1>7, <2>1
    <3>2. j + s = k + s
      BY <1>1, <3>1 DEF AssocInv, OneClientPerSocket
    <3>3. QED
      BY <3>2, <1>6
  <2>2. CASE j = m \/ k = m
    BY <1>4, <1>6, <1>7, <1>8, <2>2
  <2>3. QED
    BY <2>1, <2>2
<1>13. LeastRecentFirst'
  <2> SUFFICES ASSUME NEW j \in 1..m, NEW k \in 1..m, j < k
               PROVE  lastSent'[conn_cache'[j].src_addr] < lastSent'[conn_cache'[k].src_addr]
    BY <1>6 DEF LeastRecentFirst
  <2>0. \A x \in Clients : x # src => lastSent'[x] = lastSent[x]
    BY <1>2, <1>3
  <2>1. j # m
    BY <1>6
  <2>2. /\ j + s \in 1..n /\ conn_cache'[j] = conn_cache[j + s]
        /\ lastSent'[conn_cache'[j].src_addr] = lastSent[conn_cache[j + s].src_addr]
    BY <1>1, <1>6, <1>7, <1>8, <2>0, <2>1
  <2>3. CASE k = m
    <3>1. lastSent'[conn_cache'[k].src_addr] = packets + 1
      BY <1>2, <1>3, <1>4, <1>6, <2>3
    <3>2. lastSent[conn_cache[j + s].src_addr] \in Nat
          /\ lastSent[conn_cache[j + s].src_addr] <= packets
      BY <1>1, <1>2, <2>2
    <3>3. QED
      BY <1>2, <2>2, <3>1, <3>2
  <2>4. CASE k # m
    <3>1. /\ k + s \in 1..n /\ conn_cache'[k] = conn_cache[k + s]
          /\ lastSent'[conn_cache'[k].src_addr] = lastSent[conn_cache[k + s].src_addr]
      BY <1>1, <1>6, <1>7, <1>8, <2>0, <2>4
    <3>2. j + s < k + s
      BY <1>6
    <3>3. QED
      BY <1>1, <2>2, <3>1, <3>2 DEF AssocInv, LeastRecentFirst
  <2>5. QED
    BY <2>3, <2>4
<1>14. NotFromTheFuture'
  <2> SUFFICES ASSUME NEW j \in 1..m PROVE conn_cache'[j].fd <= packets'
    BY <1>6 DEF NotFromTheFuture
  <2>1. CASE j = m
    BY <1>2, <1>3, <1>4, <1>6, <2>1 DEF fd
  <2>2. CASE j # m
    <3>1. j + s \in 1..n /\ conn_cache'[j].fd = conn_cache[j + s].fd
      BY <1>6, <1>7, <2>2
    <3>2. conn_cache[j + s].fd \in Nat /\ conn_cache[j + s].fd <= packets
      BY <1>1, <1>2, <1>8, <3>1 DEF Fds
    <3>3. QED
      BY <1>2, <1>3, <3>1, <3>2
  <2>3. QED
    BY <2>1, <2>2
<1>15. TimersShowIdleness'
  <2> SUFFICES ASSUME NEW j \in 1..m
               PROVE  idle'[conn_cache'[j].src_addr] = age'[conn_cache'[j].fd]
    BY <1>6 DEF TimersShowIdleness
  <2>1. CASE j = m
    BY <1>2, <1>3, <1>4, <1>6, <2>1
  <2>2. CASE j # m
    <3>1. j + s \in 1..n /\ conn_cache'[j] = conn_cache[j + s]
      BY <1>6, <1>7, <2>2
    <3>2. idle[conn_cache[j + s].src_addr] = age[conn_cache[j + s].fd]
      BY <1>1, <3>1 DEF AssocInv, TimersShowIdleness
    <3>3. QED
      BY <1>1, <1>2, <1>3, <1>8, <3>1, <3>2
  <2>3. QED
    BY <2>1, <2>2
<1>16. QED
  BY <1>9, <1>10, <1>11, <1>12, <1>13, <1>14, <1>15 DEF AssocInv
\* remote_timeout_cb finds, by the client's address, the entry whose timer
\* expired, and that entry alone goes.
LEMMA TimeoutRemoves ==
    ASSUME AssocInv, NEW fd \in Fds, remote_timeout_cb(fd)
    PROVE  \E i \in 1..Len(conn_cache) :
              /\ conn_cache[i].fd = fd /\ age[fd] = Timeout
              /\ conn_cache' = Delete(conn_cache, i)
              /\ active' = active \ {fd} /\ sockets' = sockets \ {fd}
<1>1. /\ conn_cache \in Seq(Entry) /\ Len(conn_cache) \in Nat
      /\ DOMAIN conn_cache = 1..Len(conn_cache)
  BY AssocTypes
<1>2. PICK i \in 1..Len(conn_cache) : conn_cache[i].fd = fd
  BY <1>1 DEF remote_timeout_cb, AssocInv, NothingDangles
<1>3. ClientOf(fd) = conn_cache[i].src_addr
  BY <1>1, <1>2, ClientOfEntry DEF AssocInv
<1>4. Cached(conn_cache, ClientOf(fd))
  BY <1>1, <1>3 DEF Cached
<1>5. Find(conn_cache, ClientOf(fd)) = i
  BY <1>1, <1>3, <1>4, FindEntry DEF AssocInv, OneSocketPerClient
<1>6. cache_remove(conn_cache, ClientOf(fd)) = [cache |-> Delete(conn_cache, i), freed |-> {fd}]
  BY <1>2, <1>4, <1>5 DEF cache_remove
<1>7. QED
  BY <1>2, <1>6 DEF remote_timeout_cb, Free

\* remote_timeout_cb: the entry, the socket and its watchers go together.
LEMMA TimeoutKeepsAssoc ==
    ASSUME AssocInv, NEW fd \in Fds, remote_timeout_cb(fd)
    PROVE  AssocInv'
<1> DEFINE n == Len(conn_cache)
<1>1. /\ conn_cache \in Seq(Entry) /\ n \in Nat /\ DOMAIN conn_cache = 1..n
      /\ \A j \in 1..n : conn_cache[j].src_addr \in Clients /\ conn_cache[j].fd \in Fds
  BY AssocTypes
<1>2. PICK i \in 1..n : /\ conn_cache[i].fd = fd
                        /\ conn_cache' = Delete(conn_cache, i)
                        /\ active' = active \ {fd} /\ sockets' = sockets \ {fd}
  BY TimeoutRemoves
<1>3. UNCHANGED <<age, packets, running, lastSent, idle>>
  BY DEF remote_timeout_cb
<1> DEFINE Was(j) == IF j < i THEN j ELSE j + 1
<1>4. /\ conn_cache' \in Seq(Entry) /\ Len(conn_cache') = n - 1 /\ DOMAIN conn_cache' = 1..(n - 1)
      /\ \A j \in 1..(n - 1) : conn_cache'[j] = conn_cache[Was(j)]
  BY <1>1, <1>2, DeleteEntry
<1>5. /\ \A j \in 1..(n - 1) : Was(j) \in 1..n /\ Was(j) # i
      /\ \A j, k \in 1..(n - 1) : j < k => Was(j) < Was(k)
      /\ \A j, k \in 1..(n - 1) : Was(j) = Was(k) => j = k
      /\ \A k \in 1..n : k # i => \E j \in 1..(n - 1) : Was(j) = k
  <2>1. \A k \in 1..n : k # i => \E j \in 1..(n - 1) : Was(j) = k
    <3> SUFFICES ASSUME NEW k \in 1..n, k # i PROVE \E j \in 1..(n - 1) : Was(j) = k
      OBVIOUS
    <3> DEFINE j == IF k < i THEN k ELSE k - 1
    <3>1. j \in 1..(n - 1) /\ Was(j) = k
      BY <1>1
    <3>2. QED
      BY <3>1
  <2>2. QED
    BY <1>1, <2>1
<1> HIDE DEF n, Was
<1>6. TypeOK' /\ HistoryType'
  <2>1. Len(conn_cache') < MAX_UDP_CONN_NUM
    BY <1>1, <1>4, UdpRelayAssumption DEF AssocInv, TypeOK, n
  <2>2. conn_cache' \in Seq([src_addr : Clients, fd : Fds])
    BY <1>4 DEF Entry
  <2>3. sockets' \subseteq Fds /\ active' \subseteq Fds
    BY <1>2 DEF AssocInv, TypeOK
  <2>4. QED
    BY <1>3, <2>1, <2>2, <2>3 DEF AssocInv, TypeOK, HistoryType
<1>7. NothingDangles'
  <2>1. CachedFds' = CachedFds \ {fd}
    <3>1. ASSUME NEW f \in CachedFds' PROVE f \in CachedFds \ {fd}
      <4>1. PICK j \in 1..(n - 1) : f = conn_cache'[j].fd
        BY <1>4 DEF CachedFds
      <4>2. f = conn_cache[Was(j)].fd /\ Was(j) \in 1..n /\ Was(j) # i
        BY <1>4, <1>5, <4>1
      <4>3. QED
        BY <1>1, <1>2, <4>2 DEF AssocInv, OneClientPerSocket, CachedFds
    <3>2. ASSUME NEW f \in CachedFds \ {fd} PROVE f \in CachedFds'
      <4>1. PICK k \in 1..n : f = conn_cache[k].fd
        BY <1>1 DEF CachedFds
      <4>2. PICK j \in 1..(n - 1) : Was(j) = k
        BY <1>2, <1>5, <3>2, <4>1
      <4>3. QED
        BY <1>4, <4>1, <4>2 DEF CachedFds
    <3>3. QED
      BY <3>1, <3>2
  <2>2. QED
    BY <1>2, <2>1 DEF AssocInv, NothingDangles, CachedFds
<1>8. OneSocketPerClient' /\ OneClientPerSocket'
  <2>1. OneSocketPerClient'
    BY <1>1, <1>4, <1>5 DEF AssocInv, OneSocketPerClient
  <2>2. OneClientPerSocket'
    BY <1>1, <1>4, <1>5 DEF AssocInv, OneClientPerSocket
  <2>3. QED
    BY <2>1, <2>2
<1>9. LeastRecentFirst'
  BY <1>1, <1>3, <1>4, <1>5 DEF AssocInv, LeastRecentFirst
<1>10. NotFromTheFuture' /\ TimersShowIdleness'
  BY <1>1, <1>3, <1>4, <1>5 DEF AssocInv, NotFromTheFuture, TimersShowIdleness
<1>11. QED
  BY <1>6, <1>7, <1>8, <1>9, <1>10 DEF AssocInv

\* remote_recv_cb: an answer that is passed on restarts the timer of the socket
\* it came on, which is that of the client it goes to.
LEMMA RecvKeepsAssoc ==
    ASSUME AssocInv, NEW a, NEW taken \in BOOLEAN, remote_recv_cb(a, taken)
    PROVE  AssocInv'
<1> DEFINE n == Len(conn_cache)
<1>1. /\ conn_cache \in Seq(Entry) /\ n \in Nat /\ DOMAIN conn_cache = 1..n
      /\ \A j \in 1..n : conn_cache[j].src_addr \in Clients /\ conn_cache[j].fd \in Fds
      /\ age \in [Fds -> 0..Timeout] /\ idle \in [Clients -> Nat]
  BY AssocTypes
<1>2. UNCHANGED <<conn_cache, sockets, active, running, packets, lastSent>>
  BY DEF remote_recv_cb
<1>3. PICK i \in 1..n : conn_cache[i].fd = a.fd
  BY <1>1 DEF remote_recv_cb, AssocInv, NothingDangles
<1>4. ClientOf(a.fd) = conn_cache[i].src_addr
  BY <1>1, <1>3, ClientOfEntry DEF AssocInv
<1>5. CASE UNCHANGED <<age, idle>>
  BY <1>2, <1>5 DEF AssocInv, TypeOK, HistoryType, NothingDangles, OneSocketPerClient,
                    LeastRecentFirst, OneClientPerSocket, NotFromTheFuture, TimersShowIdleness
<1>6. CASE idle' = [idle EXCEPT ![ClientOf(a.fd)] = 0] /\ Again(a.fd)
  <2>1. age' = [age EXCEPT ![a.fd] = 0] /\ age' \in [Fds -> 0..Timeout]
    BY <1>1, <1>6, AgainType DEF Again
  <2>2. idle' \in [Clients -> Nat]
    BY <1>1, <1>6
  <2>3. TypeOK' /\ HistoryType'
    BY <1>2, <2>1, <2>2 DEF AssocInv, TypeOK, HistoryType
  <2>4. TimersShowIdleness'
    <3> SUFFICES ASSUME NEW k \in 1..n
                 PROVE  idle'[conn_cache[k].src_addr] = age'[conn_cache[k].fd]
      BY <1>1, <1>2 DEF TimersShowIdleness
    <3>1. /\ conn_cache[k].src_addr = ClientOf(a.fd) <=> k = i
          /\ conn_cache[k].fd = a.fd <=> k = i
      BY <1>1, <1>3, <1>4 DEF AssocInv, OneSocketPerClient, OneClientPerSocket
    <3>2. idle[conn_cache[k].src_addr] = age[conn_cache[k].fd]
      BY <1>1 DEF AssocInv, TimersShowIdleness
    <3>3. QED
      BY <1>1, <1>6, <2>1, <3>1, <3>2
  <2>5. QED
    BY <1>2, <2>3, <2>4 DEF AssocInv, NothingDangles, OneSocketPerClient, LeastRecentFirst,
                            OneClientPerSocket, NotFromTheFuture
<1>7. \E ok : PassOn(a, ok)
  BY DEF remote_recv_cb
<1>8. QED
  BY <1>5, <1>6, <1>7 DEF PassOn
\* Time passes for the timers and for the clients alike.
LEMMA TickKeepsAssoc ==
    ASSUME AssocInv, Tick
    PROVE  AssocInv'
<1> DEFINE n == Len(conn_cache)
<1>1. /\ conn_cache \in Seq(Entry) /\ n \in Nat /\ DOMAIN conn_cache = 1..n
      /\ \A j \in 1..n : conn_cache[j].src_addr \in Clients /\ conn_cache[j].fd \in Fds
      /\ age \in [Fds -> 0..Timeout] /\ idle \in [Clients -> Nat] /\ Timeout \in Nat
  BY AssocTypes
<1>2. UNCHANGED <<conn_cache, sockets, active, running, packets, lastSent>>
  BY DEF Tick
<1>3. \A f \in Fds : /\ f \in active => age'[f] = age[f] + 1 /\ age[f] < Timeout
                     /\ f \notin active => age'[f] = age[f]
  BY DEF Tick
<1>4. age' \in [Fds -> 0..Timeout]
  <2>1. \A f \in Fds : age[f] \in 0..Timeout
    BY <1>1
  <2>2. \A f \in Fds : (IF f \in active THEN age[f] + 1 ELSE age[f]) \in 0..Timeout
    BY <1>1, <1>3, <2>1
  <2>3. QED
    BY <2>2 DEF Tick
<1>5. idle' \in [Clients -> Nat]
  BY <1>1 DEF Tick
<1>6. TypeOK' /\ HistoryType'
  BY <1>2, <1>4, <1>5 DEF AssocInv, TypeOK, HistoryType
<1>7. TimersShowIdleness'
  <2> SUFFICES ASSUME NEW k \in 1..n
               PROVE  idle'[conn_cache[k].src_addr] = age'[conn_cache[k].fd]
    BY <1>1, <1>2 DEF TimersShowIdleness
  <2>1. Cached(conn_cache, conn_cache[k].src_addr) /\ conn_cache[k].fd \in active
    BY <1>1 DEF Cached, AssocInv, NothingDangles
  <2>2. idle[conn_cache[k].src_addr] = age[conn_cache[k].fd]
    BY <1>1 DEF AssocInv, TimersShowIdleness
  <2>3. age[conn_cache[k].fd] < Timeout /\ age'[conn_cache[k].fd] = age[conn_cache[k].fd] + 1
    BY <1>1, <1>3, <2>1
  <2>4. idle'[conn_cache[k].src_addr] = idle[conn_cache[k].src_addr] + 1
    BY <1>1, <2>1, <2>2, <2>3 DEF Tick
  <2>5. QED
    BY <2>2, <2>3, <2>4
<1>8. QED
  BY <1>2, <1>6, <1>7 DEF AssocInv, NothingDangles, OneSocketPerClient, LeastRecentFirst,
                          OneClientPerSocket, NotFromTheFuture

\* free_udprelay empties the cache and closes what was in it.
LEMMA FreeKeepsAssoc ==
    ASSUME AssocInv, free_udprelay
    PROVE  AssocInv'
<1>1. conn_cache' = <<>> /\ running' = FALSE /\ UNCHANGED <<age, packets, lastSent, idle>>
  BY DEF free_udprelay
<1>2. sockets' = {} /\ active' = {}
  BY DEF free_udprelay, Free, AssocInv, NothingDangles
<1>3. Len(conn_cache') = 0 /\ DOMAIN conn_cache' = {} /\ conn_cache' \in Seq([src_addr : Clients, fd : Fds])
  BY <1>1
<1>4. TypeOK' /\ HistoryType'
  <2>1. running' \in BOOLEAN
    BY <1>1, Zenon
  <2>2. 0 < MAX_UDP_CONN_NUM
    BY UdpRelayAssumption
  <2>3. QED
    BY <1>1, <1>2, <1>3, <2>1, <2>2 DEF AssocInv, TypeOK, HistoryType
<1>5. QED
  BY <1>2, <1>3, <1>4 DEF AssocInv, NothingDangles, OneSocketPerClient, LeastRecentFirst,
                          OneClientPerSocket, NotFromTheFuture, TimersShowIdleness

\* The associations are in order in every reachable state.
THEOREM Associations == Spec => []AssocInv
<1>1. Init => AssocInv
  <2> SUFFICES ASSUME Init PROVE AssocInv
    OBVIOUS
  <2>1. Len(conn_cache) = 0 /\ DOMAIN conn_cache = {} /\ conn_cache \in Seq([src_addr : Clients, fd : Fds])
    BY DEF Init
  <2>2. age \in [Fds -> 0..Timeout]
    <3>1. 0 \in 0..Timeout
      BY UdpRelayAssumption
    <3>2. QED
      BY <3>1 DEF Init
  <2>3. TypeOK /\ HistoryType
    BY <2>1, <2>2, UdpRelayAssumption DEF Init, TypeOK, HistoryType
  <2>4. QED
    BY <2>1, <2>3 DEF Init, AssocInv, NothingDangles, OneSocketPerClient, LeastRecentFirst,
                      OneClientPerSocket, NotFromTheFuture, TimersShowIdleness
<1>2. AssocInv /\ [Next]_vars => AssocInv'
  <2> SUFFICES ASSUME AssocInv, [Next]_vars PROVE AssocInv'
    OBVIOUS
  <2>1. CASE UNCHANGED <<conn_cache, sockets, active, age, running, packets, lastSent, idle>>
    BY <2>1 DEF AssocInv, TypeOK, HistoryType, NothingDangles, OneSocketPerClient,
                LeastRecentFirst, OneClientPerSocket, NotFromTheFuture, TimersShowIdleness
  <2>2. ASSUME NEW q \in requests, Answer(q) PROVE AssocInv'
    BY <2>1, <2>2 DEF Answer
  <2>3. QED
    BY <2>1, <2>2, HitKeepsAssoc, MissKeepsAssoc, RecvKeepsAssoc, TimeoutKeepsAssoc,
       FreeKeepsAssoc, TickKeepsAssoc DEF Next, vars
<1>3. QED
  BY <1>1, <1>2, PTL DEF Spec

\* The cache stays within its size and in the order of the clients' last packets,
\* a client has one socket, no socket or watcher outlives its entry, and no
\* entry outlives its timeout.
THEOREM CacheCorrect == Spec => []CacheInv
<1>1. AssocInv => CacheInv
  <2> SUFFICES ASSUME AssocInv PROVE IdleSocketsClosed
    BY DEF AssocInv, CacheInv
  <2>1. \A f \in Fds : age[f] <= Timeout
    BY AssocTypes
  <2>2. QED
    BY <2>1, AssocTypes DEF AssocInv, TimersShowIdleness, IdleSocketsClosed
<1>2. QED
  BY <1>1, Associations, PTL

\* remote_timeout_cb only closes a socket whose client sent and got nothing for
\* the whole timeout.
THEOREM TimeoutsAreIdle == Spec => OnlyIdleTimesOut
<1> DEFINE A == \A i \in DOMAIN conn_cache :
                    running' /\ packets' = packets /\ conn_cache[i].fd \notin sockets'
                        => idle[conn_cache[i].src_addr] = Timeout
<1>1. AssocInv /\ [Next]_vars => [A]_vars
  <2> SUFFICES ASSUME AssocInv, [Next]_vars, NEW i \in DOMAIN conn_cache,
                      running', packets' = packets, conn_cache[i].fd \notin sockets'
               PROVE  idle[conn_cache[i].src_addr] = Timeout
    OBVIOUS
  <2>1. packets \in Nat /\ DOMAIN conn_cache = 1..Len(conn_cache)
    BY AssocTypes
  <2>2. conn_cache[i].fd \in sockets
    BY DEF AssocInv, NothingDangles
  <2>3. CASE UNCHANGED sockets
    BY <2>2, <2>3
  <2>4. ASSUME NEW fd \in Fds, remote_timeout_cb(fd) PROVE idle[conn_cache[i].src_addr] = Timeout
    <3>1. age[fd] = Timeout /\ sockets' = sockets \ {fd}
      BY <2>4, TimeoutRemoves
    <3>2. QED
      BY <2>2, <3>1 DEF AssocInv, TimersShowIdleness
  <2>5. ASSUME NEW src \in Clients, NEW frag \in BOOLEAN,
               ServerRecvHit(src, frag) \/ ServerRecvMiss(src)
        PROVE  FALSE
    <3>1. packets' = packets + 1
      BY <2>5 DEF ServerRecvHit, ServerRecvMiss
    <3>2. QED
      BY <2>1, <3>1
  <2>6. ASSUME free_udprelay PROVE FALSE
    BY <2>6 DEF free_udprelay
  <2>7. ASSUME NEW a \in answers, NEW taken \in BOOLEAN, remote_recv_cb(a, taken)
        PROVE  UNCHANGED sockets
    BY <2>7 DEF remote_recv_cb
  <2>8. ASSUME NEW q \in requests, Answer(q) PROVE UNCHANGED sockets
    BY <2>8 DEF Answer
  <2>9. QED
    BY <2>3, <2>4, <2>5, <2>6, <2>7, <2>8 DEF Next, vars, Tick
<1>2. QED
  BY <1>1, Associations, PTL DEF Spec, OnlyIdleTimesOut
------------------------------------------------------------------------------
(* The filter of salts *)

\* ppbloom_add: the filters keep the last Entries salts and those that were added
\* since they last took turns, also when the one that is full gives way.
LEMMA FilterAdd ==
    ASSUME NEW f, NEW salts \in Seq(Salts), NEW salt \in Salts,
           FilterType(f), FilterKeeps(f, salts)
    PROVE  /\ FilterType(ppbloom_add(f, salt))
           /\ FilterKeeps(ppbloom_add(f, salt), Append(salts, salt))
<1> DEFINE u == f.current
           o == 1 - u
           n == Len(salts)
           c == f.bloom_count[u]
           B == [f.bloom EXCEPT ![u] = @ \cup {salt}]
           C == [f.bloom_count EXCEPT ![u] = @ + 1]
           more == Append(salts, salt)
           Bloom == [{PING, PONG} -> SUBSET Salts]
           Count == [{PING, PONG} -> Nat]
<1>1. /\ u \in {PING, PONG} /\ o \in {PING, PONG} /\ o # u /\ 1 - o = u
      /\ o = IF u = PING THEN PONG ELSE PING
      /\ f.bloom \in Bloom /\ f.bloom_count \in Count
      /\ c \in Nat /\ f.bloom_count[o] = 0
  BY DEF FilterType, PING, PONG
<1>2. n \in Nat /\ c < Entries /\ Entries \in Nat
  BY LenProperties, EntriesAssumption DEF FilterKeeps
<1>3. \A i \in 1..n : /\ i + c > n => salts[i] \in f.bloom[u]
                      /\ i + c <= n /\ i + c + Entries > n => salts[i] \in f.bloom[o]
  BY DEF FilterKeeps
<1>4. /\ B \in Bloom /\ B[u] = f.bloom[u] \cup {salt} /\ B[o] = f.bloom[o]
      /\ C \in Count /\ C[u] = c + 1 /\ C[o] = 0
  BY <1>1
<1>5. /\ Len(more) = n + 1 /\ more[n + 1] = salt
      /\ \A i \in 1..n : more[i] = salts[i]
  BY <1>2, AppendProperties
<1> DEFINE g == [bloom |-> B, bloom_count |-> C, current |-> u]
<1>6. g.bloom = B /\ g.bloom_count = C /\ g.current = u
  OBVIOUS
<1>7. ppbloom_add(f, salt) = IF C[u] >= Entries THEN SwapFilters(g) ELSE g
  BY <1>6 DEF ppbloom_add
<1>8. SwapFilters(g) = [bloom |-> [B EXCEPT ![o] = {}],
                        bloom_count |-> [C EXCEPT ![u] = 0], current |-> o]
  BY <1>1, <1>6 DEF SwapFilters
<1>9. \A i \in 1..(n + 1) : i = n + 1 \/ i \in 1..n
  BY <1>2
<1> HIDE DEF u, o, n, c, B, C, more
<1>10. CASE c + 1 < Entries
  <2>1. ppbloom_add(f, salt) = g
    BY <1>1, <1>2, <1>4, <1>7, <1>10
  <2>2. FilterType(g)
    BY <1>1, <1>4, <1>6 DEF FilterType, o
  <2>3. FilterKeeps(g, more)
    <3>1. \A i \in 1..(n + 1) :
             /\ i + (c + 1) > n + 1 => more[i] \in B[u]
             /\ i + (c + 1) <= n + 1 /\ i + (c + 1) + Entries > n + 1 => more[i] \in B[o]
      BY <1>1, <1>2, <1>3, <1>4, <1>5, <1>9
    <3>2. QED
      BY <1>4, <1>5, <1>6, <1>10, <3>1 DEF FilterKeeps, o
  <2>4. QED
    BY <2>1, <2>2, <2>3 DEF more
<1>11. CASE c + 1 = Entries
  <2> DEFINE h == [bloom |-> [B EXCEPT ![o] = {}], bloom_count |-> [C EXCEPT ![u] = 0], current |-> o]
  <2>1. ppbloom_add(f, salt) = h
    BY <1>1, <1>2, <1>4, <1>7, <1>8, <1>11
  <2>2. /\ [B EXCEPT ![o] = {}] \in Bloom /\ [B EXCEPT ![o] = {}][u] = B[u]
        /\ [C EXCEPT ![u] = 0] \in Count
        /\ [C EXCEPT ![u] = 0][u] = 0 /\ [C EXCEPT ![u] = 0][o] = 0
    BY <1>1, <1>4
  <2>3. h.bloom = [B EXCEPT ![o] = {}] /\ h.bloom_count = [C EXCEPT ![u] = 0] /\ h.current = o
    OBVIOUS
  <2>4. FilterType(h)
    BY <1>1, <2>2, <2>3 DEF FilterType
  <2>5. \A i \in 1..(n + 1) :
           /\ ~(i + 0 > n + 1)
           /\ i + 0 <= n + 1 /\ i + 0 + Entries > n + 1 => more[i] \in B[u]
    BY <1>1, <1>2, <1>3, <1>4, <1>5, <1>9, <1>11, SMTT(30)
  <2>6. FilterKeeps(h, more)
    <3>1. h.bloom_count[h.current] = 0 /\ h.bloom[1 - h.current] = B[u]
      BY <1>1, <2>2, <2>3
    <3>2. 0 < Entries
      BY EntriesAssumption
    <3>3. QED
      BY <1>5, <2>5, <3>1, <3>2 DEF FilterKeeps
  <2>7. QED
    BY <2>1, <2>4, <2>6 DEF more
<1>12. QED
  BY <1>1, <1>2, <1>10, <1>11

\* A salt that ppbloom_check does not know is none of the last Entries.
LEMMA FilterCheck ==
    ASSUME NEW f, NEW salts \in Seq(Salts), NEW salt, FilterType(f), FilterKeeps(f, salts),
           ~ppbloom_check(f, salt), NEW i \in DOMAIN salts, i + Entries > Len(salts)
    PROVE  salts[i] # salt
<1>1. /\ i \in 1..Len(salts) /\ Len(salts) \in Nat
      /\ Entries \in Nat
  BY LenProperties, EntriesAssumption
<1>2. /\ f.bloom_count[f.current] \in Nat
      /\ salt \notin f.bloom[f.current] /\ salt \notin f.bloom[1 - f.current]
  BY DEF FilterType, ppbloom_check, PING, PONG
<1>3. QED
  BY <1>1, <1>2 DEF FilterKeeps
------------------------------------------------------------------------------
(* The datagrams *)

\* An entry is an old one, or that of a descriptor which was never used before.
EntriesFrom(src) ==
    \A j \in DOMAIN conn_cache' :
        \/ \E k \in DOMAIN conn_cache : conn_cache'[j] = conn_cache[k]
        \/ conn_cache'[j] = [src_addr |-> src, fd |-> packets + 1] /\ packets' = packets + 1

\* What is on its way stays addressed to the client its socket was made for.
LEMMA StaysAddressed ==
    ASSUME AssocInv, NEW src, NEW d, Addressed(d), EntriesFrom(src),
           packets' = packets \/ packets' = packets + 1
    PROVE  Addressed(d)'
<1>1. packets \in Nat /\ MaxPackets \in Nat /\ d.fd \in Fds /\ d.fd <= packets /\ d.src \in Clients
      /\ d.dgram.packet \in Nat
  BY AssocTypes DEF Addressed
<1>2. d.fd <= packets' /\ d.fd # packets + 1
  BY <1>1 DEF Fds
<1>3. ASSUME NEW j \in DOMAIN conn_cache', conn_cache'[j].fd = d.fd
      PROVE  conn_cache'[j].src_addr = d.src
  <2>1. conn_cache'[j] # [src_addr |-> src, fd |-> packets + 1]
    BY <1>2, <1>3
  <2>2. PICK k \in DOMAIN conn_cache : conn_cache'[j] = conn_cache[k]
    BY <2>1 DEF EntriesFrom
  <2>3. QED
    BY <1>3, <2>2 DEF Addressed
<1>4. QED
  BY <1>1, <1>2, <1>3 DEF Addressed

\* Every step takes the entries from where they were.
LEMMA EntriesKept ==
    ASSUME AssocInv
    PROVE  /\ \A src \in Clients, frag \in BOOLEAN : ServerRecvHit(src, frag) => EntriesFrom(src)
           /\ \A src \in Clients : ServerRecvMiss(src) => EntriesFrom(src)
           /\ \A fd \in Fds : remote_timeout_cb(fd) => EntriesFrom(fd)
<1> DEFINE n == Len(conn_cache)
<1>1. /\ conn_cache \in Seq(Entry) /\ n \in Nat /\ DOMAIN conn_cache = 1..n
      /\ packets \in Nat /\ MaxPackets \in Nat
  BY AssocTypes
<1>2. ASSUME NEW src \in Clients, NEW frag \in BOOLEAN, ServerRecvHit(src, frag)
      PROVE  EntriesFrom(src)
  <2>1. Cached(conn_cache, src) /\ conn_cache' = cache_lookup(conn_cache, src)
    BY <1>2 DEF ServerRecvHit
  <2>2. /\ DOMAIN conn_cache' = 1..n /\ Find(conn_cache, src) \in 1..n
        /\ conn_cache'[n] = conn_cache[Find(conn_cache, src)]
        /\ \A j \in 1..(n - 1) :
              conn_cache'[j] = conn_cache[IF j < Find(conn_cache, src) THEN j ELSE j + 1]
    BY <1>1, <2>1, LookupEntry, FindEntry
  <2>3. QED
    BY <1>1, <2>2 DEF EntriesFrom
<1>3. ASSUME NEW src \in Clients, ServerRecvMiss(src)
      PROVE  EntriesFrom(src)
  <2> DEFINE e == [src_addr |-> src, fd |-> packets + 1]
  <2>1. /\ e \in Entry /\ conn_cache' = cache_insert(conn_cache, e).cache
        /\ packets' = packets + 1
    BY <1>1, <1>3 DEF ServerRecvMiss, Entry, Fds
  <2>2. Len(conn_cache) < MAX_UDP_CONN_NUM
    BY DEF AssocInv, TypeOK
  <2> HIDE DEF e
  <2>3. \/ /\ DOMAIN conn_cache' = 1..(n + 1) /\ conn_cache'[n + 1] = e
           /\ \A j \in 1..n : conn_cache'[j] = conn_cache[j]
        \/ /\ DOMAIN conn_cache' = 1..n /\ conn_cache'[n] = e
           /\ \A j \in 1..(n - 1) : conn_cache'[j] = conn_cache[j + 1]
    BY <1>1, <2>1, <2>2, InsertEntry
  <2>4. \A j \in DOMAIN conn_cache' :
           conn_cache'[j] = e \/ \E k \in DOMAIN conn_cache : conn_cache'[j] = conn_cache[k]
    BY <1>1, <2>3
  <2>5. QED
    BY <2>1, <2>4 DEF EntriesFrom, e
<1>4. ASSUME NEW fd \in Fds, remote_timeout_cb(fd)
      PROVE  EntriesFrom(fd)
  <2>1. PICK i \in 1..n : conn_cache' = Delete(conn_cache, i)
    BY <1>4, TimeoutRemoves
  <2>2. /\ DOMAIN conn_cache' = 1..(n - 1)
        /\ \A j \in 1..(n - 1) : conn_cache'[j] = conn_cache[IF j < i THEN j ELSE j + 1]
    BY <1>1, <2>1, DeleteEntry
  <2>3. QED
    BY <1>1, <2>2 DEF EntriesFrom
<1>5. QED
  BY <1>2, <1>3, <1>4

\* Requests and answers name the client whose socket they use, and an answer is
\* given to no other.
THEOREM Datagrams == Spec => []DatagramInv
<1>1. Init => DatagramInv
  BY DEF Init, DatagramInv, AnswersReachTheirClient
<1>2. AssocInv /\ AssocInv' /\ DatagramInv /\ [Next]_vars => DatagramInv'
  <2> SUFFICES ASSUME AssocInv, AssocInv', DatagramInv, [Next]_vars PROVE DatagramInv'
    OBVIOUS
  <2>0. /\ DOMAIN conn_cache = 1..Len(conn_cache) /\ packets \in Nat /\ MaxPackets \in Nat
        /\ \A j \in DOMAIN conn_cache : conn_cache[j].src_addr \in Clients /\ conn_cache[j].fd \in Fds
    BY AssocTypes
  <2>1. ASSUME NEW src, EntriesFrom(src), packets' = packets \/ packets' = packets + 1,
               UNCHANGED <<answers, delivered>>,
               \A q \in requests' : q \in requests \/ Addressed(q)'
        PROVE  DatagramInv'
    BY <2>1, StaysAddressed DEF DatagramInv, AnswersReachTheirClient
  <2>2. ASSUME NEW src \in Clients, NEW fd \in Fds, Forward(src, fd), fd <= packets',
               packets' = packets + 1,
               \A j \in DOMAIN conn_cache' : conn_cache'[j].fd = fd => conn_cache'[j].src_addr = src
        PROVE  \A q \in requests' : q \in requests \/ Addressed(q)'
    <3> SUFFICES ASSUME NEW q \in requests', q \notin requests PROVE Addressed(q)'
      OBVIOUS
    <3>1. q.fd = fd /\ q.src = src /\ q.dgram.packet = packets + 1
      BY <2>2 DEF Forward, aead_encrypt_all
    <3>2. QED
      BY <2>0, <2>2, <3>1 DEF Addressed
  <2>3. ASSUME NEW src \in Clients, NEW frag \in BOOLEAN, ServerRecvHit(src, frag)
        PROVE  DatagramInv'
    <3> DEFINE i == Find(conn_cache, src)
               fd == conn_cache[i].fd
    <3>1. i \in DOMAIN conn_cache /\ conn_cache[i].src_addr = src
      BY <2>3, AssocTypes, FindEntry DEF ServerRecvHit
    <3>2. EntriesFrom(src) /\ packets' = packets + 1 /\ UNCHANGED <<answers, delivered>>
      BY <2>3, EntriesKept DEF ServerRecvHit
    <3>3. requests' = requests \/ Forward(src, fd)
      BY <2>3 DEF ServerRecvHit, Drop
    <3>4. fd \in Fds /\ fd <= packets
      BY <2>0, <3>1 DEF AssocInv, NotFromTheFuture
    <3> HIDE DEF i
    <3>5. \A j \in DOMAIN conn_cache' : conn_cache'[j].fd = fd => conn_cache'[j].src_addr = src
      <4> SUFFICES ASSUME NEW j \in DOMAIN conn_cache', conn_cache'[j].fd = fd
                   PROVE  conn_cache'[j].src_addr = src
        OBVIOUS
      <4>1. fd # packets + 1
        BY <2>0, <3>4 DEF Fds
      <4>2. PICK k \in DOMAIN conn_cache : conn_cache'[j] = conn_cache[k]
        BY <3>2, <4>1 DEF EntriesFrom
      <4>3. k = i
        BY <3>1, <4>2 DEF AssocInv, OneClientPerSocket
      <4>4. QED
        BY <3>1, <4>2, <4>3
    <3>6. fd <= packets'
      BY <2>0, <3>2, <3>4 DEF Fds
    <3> HIDE DEF fd
    <3>7. \A q \in requests' : q \in requests \/ Addressed(q)'
      BY <2>2, <3>2, <3>3, <3>4, <3>5, <3>6
    <3>8. QED
      BY <2>1, <3>2, <3>7
  <2>4. ASSUME NEW src \in Clients, ServerRecvMiss(src)
        PROVE  DatagramInv'
    <3> DEFINE fd == packets + 1
    <3>1. EntriesFrom(src) /\ packets' = packets + 1 /\ UNCHANGED <<answers, delivered>>
      BY <2>4, EntriesKept DEF ServerRecvMiss
    <3>2. Forward(src, fd) /\ fd \in Fds /\ fd <= packets'
      BY <2>0, <2>4 DEF ServerRecvMiss, Fds
    <3>3. \A k \in DOMAIN conn_cache : conn_cache[k].fd # fd
      BY <2>0 DEF AssocInv, NotFromTheFuture, Fds
    <3>4. \A j \in DOMAIN conn_cache' : conn_cache'[j].fd = fd => conn_cache'[j].src_addr = src
      BY <3>1, <3>3 DEF EntriesFrom
    <3>5. \A q \in requests' : q \in requests \/ Addressed(q)'
      BY <2>2, <3>1, <3>2, <3>4
    <3>6. QED
      BY <2>1, <3>1, <3>5
  <2>5. CASE UNCHANGED <<conn_cache, packets>>
    <3>1. \A src : EntriesFrom(src)
      BY <2>5 DEF EntriesFrom
    <3>2. \A d : Addressed(d) => Addressed(d)'
      BY <2>5 DEF Addressed
    <3>3. ASSUME NEW a \in answers, NEW taken \in BOOLEAN, remote_recv_cb(a, taken)
          PROVE  DatagramInv'
      <4>1. answers' \subseteq answers /\ UNCHANGED requests
        BY <3>3 DEF remote_recv_cb
      <4>2. PICK i \in DOMAIN conn_cache : conn_cache[i].fd = a.fd
        BY <3>3 DEF remote_recv_cb, AssocInv, NothingDangles
      <4>3. ClientOf(a.fd) = conn_cache[i].src_addr
        BY <4>2, ClientOfEntry DEF AssocInv
      <4>4. ClientOf(a.fd) = a.src
        BY <4>2, <4>3 DEF DatagramInv, Addressed
      <4>5. \E ok : PassOn(a, ok)
        BY <3>3 DEF remote_recv_cb
      <4>6. AnswersReachTheirClient'
        BY <4>4, <4>5 DEF PassOn, AnswersReachTheirClient, DatagramInv
      <4>7. QED
        BY <3>2, <4>1, <4>6 DEF DatagramInv
    <3>4. ASSUME NEW q \in requests, Answer(q) PROVE DatagramInv'
      <4>1. requests' \subseteq requests /\ UNCHANGED delivered
        BY <3>4 DEF Answer
      <4>2. ASSUME NEW a \in answers', a \notin answers
            PROVE  Addressed(a) /\ a.dgram.salt = <<"answer", a.dgram.packet>>
        <5>1. /\ a.fd = q.fd /\ a.src = q.src /\ a.dgram.packet = q.dgram.packet
              /\ a.dgram.salt = <<"answer", q.dgram.packet>>
          BY <3>4, <4>2 DEF Answer, aead_encrypt_all
        <5>2. QED
          BY <5>1 DEF DatagramInv, Addressed
      <4>3. QED
        BY <3>2, <4>1, <4>2 DEF DatagramInv, AnswersReachTheirClient
    <3>5. CASE UNCHANGED <<requests, answers, delivered>>
      BY <3>2, <3>5 DEF DatagramInv, AnswersReachTheirClient
    <3>6. ASSUME NEW fd \in Fds, remote_timeout_cb(fd) PROVE DatagramInv'
      BY <3>5, <3>6 DEF remote_timeout_cb
    <3>7. ASSUME free_udprelay PROVE DatagramInv'
      BY <3>7 DEF free_udprelay, DatagramInv, AnswersReachTheirClient
    <3>8. QED
      BY <2>3, <2>4, <3>3, <3>4, <3>5, <3>6, <3>7 DEF Next, vars, Tick
  <2>6. ASSUME NEW fd \in Fds, remote_timeout_cb(fd) PROVE DatagramInv'
    <3>1. EntriesFrom(fd) /\ UNCHANGED <<packets, requests, answers, delivered>>
      BY <2>6, EntriesKept DEF remote_timeout_cb
    <3>2. QED
      BY <2>1, <3>1
  <2>7. CASE free_udprelay
    BY <2>7 DEF free_udprelay, DatagramInv, AnswersReachTheirClient
  <2>8. QED
    BY <2>3, <2>4, <2>5, <2>6, <2>7 DEF Next, vars, remote_recv_cb, Answer, Tick
<1>3. QED
  BY <1>1, <1>2, Associations, PTL DEF Spec
\* A datagram is sealed with a salt that was never used, and opened only if its
\* salt is none of the last Entries.
Added(salt) ==
    /\ pp' = ppbloom_add(pp, salt) /\ added' = Append(added, salt)
    /\ \A i \in DOMAIN added : i + Entries > Len(added) => added[i] # salt

\* Every step leaves the filter alone or adds such a salt to it.
LEMMA SaltSteps ==
    ASSUME AssocInv, DatagramInv, SaltInv, [Next]_vars
    PROVE  /\ packets \in Nat /\ packets' \in Nat /\ packets <= packets'
           /\ \/ UNCHANGED <<pp, added>>
              \/ \E salt \in Salts :
                    Added(salt) /\ (salt[1] = "request" => salt[2] <= packets')
<1>0. packets \in Nat
  BY AssocTypes
<1>1. ASSUME NEW src, NEW fd, Forward(src, fd), packets' = packets + 1
      PROVE  \E salt \in Salts : Added(salt) /\ (salt[1] = "request" => salt[2] <= packets')
  <2> DEFINE salt == <<"request", packets + 1>>
  <2>1. salt \in Salts /\ salt[1] = "request" /\ salt[2] = packets + 1
    BY <1>0 DEF Salts
  <2>2. pp' = ppbloom_add(pp, salt) /\ added' = Append(added, salt)
    BY <1>1 DEF Forward, aead_encrypt_all
  <2>3. \A i \in DOMAIN added : added[i] # salt
    <3> SUFFICES ASSUME NEW i \in DOMAIN added, added[i] = salt PROVE FALSE
      OBVIOUS
    <3>1. packets + 1 <= packets
      BY <2>1 DEF SaltInv
    <3>2. QED
      BY <1>0, <3>1
  <2> HIDE DEF salt
  <2>4. Added(salt)
    BY <2>2, <2>3 DEF Added
  <2>5. QED
    BY <1>0, <1>1, <2>1, <2>4
<1>2. ASSUME NEW src \in Clients, NEW frag \in BOOLEAN, ServerRecvHit(src, frag)
      PROVE  /\ packets' = packets + 1
             /\ (\E fd : Forward(src, fd)) \/ UNCHANGED <<pp, added>>
  BY <1>2 DEF ServerRecvHit, Drop
<1>3. ASSUME NEW src \in Clients, ServerRecvMiss(src)
      PROVE  packets' = packets + 1 /\ \E fd : Forward(src, fd)
  BY <1>3 DEF ServerRecvMiss
<1>4. ASSUME NEW a \in answers, NEW taken \in BOOLEAN, remote_recv_cb(a, taken)
      PROVE  /\ packets' = packets
             /\ \/ UNCHANGED <<pp, added>>
                \/ \E salt \in Salts :
                      Added(salt) /\ (salt[1] = "request" => salt[2] <= packets')
  <2> DEFINE salt == a.dgram.salt
             r == decrypt_all(a.dgram, pp)
  <2>1. salt = <<"answer", a.dgram.packet>> /\ a.dgram.packet \in Nat
    BY DEF DatagramInv, Addressed
  <2>2. salt \in Salts /\ salt[1] # "request"
    BY <2>1 DEF Salts
  <2>3. packets' = packets /\ pp' = r.pp
        /\ added' = IF r.err = "OK" THEN Append(added, salt) ELSE added
    BY <1>4 DEF remote_recv_cb
  <2>4. CASE ppbloom_check(pp, salt) \/ a.dgram.key # <<Password, salt>>
    <3>1. r.err = "ERROR" /\ r.pp = pp
      BY <2>4 DEF decrypt_all, aead_decrypt_all
    <3>2. QED
      BY <2>3, <3>1
  <2>5. CASE ~(ppbloom_check(pp, salt) \/ a.dgram.key # <<Password, salt>>)
    <3>1. r.err = "OK" /\ r.pp = ppbloom_add(pp, salt)
      BY <2>5 DEF decrypt_all, aead_decrypt_all
    <3>2. Added(salt)
      BY <2>3, <2>5, <3>1, FilterCheck DEF Added, SaltInv
    <3>3. QED
      BY <2>2, <2>3, <3>2
  <2>6. QED
    BY <2>4, <2>5
<1>5. CASE (\E fd \in Fds : remote_timeout_cb(fd)) \/ free_udprelay \/ Tick
           \/ (\E q \in requests : Answer(q)) \/ UNCHANGED vars
  <2>1. UNCHANGED <<pp, added, packets>>
    BY <1>5 DEF remote_timeout_cb, free_udprelay, Tick, Answer, vars
  <2>2. QED
    BY <1>0, <2>1
<1>6. QED
  BY <1>0, <1>1, <1>2, <1>3, <1>4, <1>5 DEF Next

\* The filter holds the last Entries salts, and no salt of a request is from the
\* future.
THEOREM SaltsRemembered == Spec => []SaltInv
<1>1. Init => SaltInv
  <2> SUFFICES ASSUME Init PROVE SaltInv
    OBVIOUS
  <2>1. pp = ppbloom_init /\ added \in Seq(Salts) /\ Len(added) = 0 /\ DOMAIN added = {}
    BY DEF Init
  <2>2. FilterType(ppbloom_init) /\ ppbloom_init.bloom_count[ppbloom_init.current] = 0
    BY DEF FilterType, ppbloom_init, PING, PONG
  <2>3. FilterKeeps(ppbloom_init, added)
    BY <2>1, <2>2, EntriesAssumption DEF FilterKeeps
  <2>4. QED
    BY <2>1, <2>2, <2>3 DEF SaltInv
<1>2. AssocInv /\ DatagramInv /\ SaltInv /\ [Next]_vars => SaltInv'
  <2> SUFFICES ASSUME AssocInv, DatagramInv, SaltInv, [Next]_vars PROVE SaltInv'
    OBVIOUS
  <2>1. packets \in Nat /\ packets' \in Nat /\ packets <= packets'
    BY SaltSteps
  <2>2. /\ added \in Seq(Salts) /\ Len(added) \in Nat /\ DOMAIN added = 1..Len(added)
        /\ \A i \in DOMAIN added : added[i] \in Salts
    BY LenProperties, ElementOfSeq DEF SaltInv
  <2>3. \A i \in DOMAIN added : added[i][1] = "request" => added[i][2] <= packets'
    <3> SUFFICES ASSUME NEW i \in DOMAIN added, added[i][1] = "request"
                 PROVE  added[i][2] <= packets'
      OBVIOUS
    <3>1. added[i][2] \in Nat /\ added[i][2] <= packets
      BY <2>2 DEF Salts, SaltInv
    <3>2. QED
      BY <2>1, <3>1
  <2>4. CASE UNCHANGED <<pp, added>>
    BY <2>3, <2>4 DEF SaltInv
  <2>5. ASSUME NEW salt \in Salts, Added(salt), salt[1] = "request" => salt[2] <= packets'
        PROVE  SaltInv'
    <3>1. FilterType(pp') /\ FilterKeeps(pp', added')
      BY <2>2, <2>5, FilterAdd DEF SaltInv, Added
    <3>2. /\ added' \in Seq(Salts) /\ Len(added') = Len(added) + 1
          /\ DOMAIN added' = 1..(Len(added) + 1)
          /\ added'[Len(added) + 1] = salt
          /\ \A i \in 1..Len(added) : added'[i] = added[i]
      BY <2>2, <2>5, AppendProperties, LenProperties DEF Added
    <3>3. \A i \in DOMAIN added' : added'[i][1] = "request" => added'[i][2] <= packets'
      BY <2>2, <2>3, <2>5, <3>2
    <3>4. QED
      BY <3>1, <3>2, <3>3 DEF SaltInv
  <2>6. QED
    BY <2>4, <2>5, SaltSteps
<1>3. QED
  BY <1>1, <1>2, Associations, Datagrams, PTL DEF Spec

\* An answer is given to the client that asked, whatever sockets were closed and
\* opened meanwhile, and a datagram whose salt is among the last Entries is not
\* accepted again.
THEOREM AnswersDeliveredOnce == Spec => AnswersDelivered
<1>1. DatagramInv => AnswersReachTheirClient
  BY DEF DatagramInv
<1>2. AssocInv /\ DatagramInv /\ DatagramInv' /\ SaltInv /\ [Next]_vars
         => [AnswersReachTheirClient' /\ NotAcceptedTwice]_vars
  <2> SUFFICES ASSUME AssocInv, DatagramInv, DatagramInv', SaltInv, [Next]_vars, added' # added,
                      NEW i \in DOMAIN added, i + Entries > Len(added)
               PROVE  added[i] # added'[Len(added')]
    BY <1>1 DEF NotAcceptedTwice, DatagramInv
  <2>1. PICK salt \in Salts : Added(salt)
    BY SaltSteps
  <2>2. added'[Len(added')] = salt
    BY <2>1, AppendProperties DEF Added, SaltInv
  <2>3. QED
    BY <2>1, <2>2 DEF Added
<1>3. QED
  BY <1>2, Associations, Datagrams, SaltsRemembered, PTL DEF Spec, AnswersDelivered

==============================================================================
