----------------------------- MODULE RedsocksProofs -----------------------------
(***************************************************************************)
(* What TLAPS proves about Redsocks, for any finite set of slots, any      *)
(* limit and any number of bytes.                                          *)
(***************************************************************************)
EXTENDS Redsocks, FiniteSetTheorems, SequenceTheorems, TLAPS

------------------------------------------------------------------------------
(* Accepting *)

(***************************************************************************)
(* The listener is only there while there is room, and never together with *)
(* the timer: whoever stops the timer puts the listener back only if there *)
(* is room, and dropping clients makes more of it.                         *)
(***************************************************************************)
AcceptInv ==
    /\ cl = [c \in Clients |-> cl[c]]
    /\ listener \in BOOLEAN /\ backoff \in BOOLEAN
    /\ RoomForOneMore /\ PausedMeansPaused

\* The clients are finitely many.
LEMMA ConnsFinite ==
    ASSUME NEW all
    PROVE  IsFiniteSet(Conns(all)) /\ Conn(all) \in Nat
<1>1. Conns(all) \subseteq Clients /\ IsFiniteSet(Clients)
  BY RedsocksAssumption DEF Conns
<1>2. QED
  BY <1>1, FS_Subset, FS_CardinalityType DEF Conn

\* Fewer clients are not more.
LEMMA ConnMonotone ==
    ASSUME NEW all, NEW some, Conns(some) \subseteq Conns(all)
    PROVE  Conn(some) <= Conn(all)
BY ConnsFinite, FS_Subset DEF Conn

\* Dropping idle clients makes room for the one that was just accepted.
LEMMA DroppingMakesRoom ==
    ASSUME NEW all, NEW c \in Conns(all), all[c].old, NEW some,
           some = Without(all, Idle(all))
    PROVE  Conn(some) < Conn(all)
<1>1. Conns(some) \subseteq Conns(all) \ {c}
  BY DEF Conns, Without, Idle, Free
<1> DEFINE rest == Conns(all) \ {c}
<1>2. IsFiniteSet(rest) /\ Cardinality(rest) = Cardinality(Conns(all)) - 1
  BY ConnsFinite, FS_RemoveElement
<1>3. Cardinality(Conns(some)) <= Cardinality(rest) /\ Cardinality(rest) \in Nat
  <2> HIDE DEF rest
  <2> QED  BY <1>1, <1>2, FS_Subset, FS_CardinalityType DEF rest
<1>4. QED
  BY <1>2, <1>3, ConnsFinite DEF Conn

\* conn_pressure, for clients all of which one may be new
LEMMA PressureKeeps ==
    ASSUME AcceptInv, listener, NEW all, all = [c \in Clients |-> all[c]], Conn(all) <= Conn(cl) + 1,
           conn_pressure(all)
    PROVE  AcceptInv' /\ PauseHasAnEnd
<1>1. CASE Idle(all) # {}
  <2>1. cl' = Without(all, Idle(all)) /\ UNCHANGED <<listener, backoff>>
    BY <1>1 DEF conn_pressure
  <2>2. PICK c \in Conns(all) : all[c].old
    BY <1>1 DEF Idle
  <2>3. Conn(cl') < Conn(all)
    BY <2>1, <2>2, DroppingMakesRoom
  <2>4. RoomForOneMore'
    BY <2>3, ConnsFinite, RedsocksAssumption DEF AcceptInv, RoomForOneMore
  <2>5. cl' = [x \in Clients |-> cl'[x]]
    BY <2>1 DEF Without
  <2>6. QED
    BY <2>1, <2>4, <2>5 DEF AcceptInv, PausedMeansPaused, PauseHasAnEnd
<1>2. CASE Idle(all) = {}
  <2>1. cl' = all /\ backoff' = TRUE /\ listener' = FALSE
    BY <1>2 DEF conn_pressure
  <2>2. listener' \in BOOLEAN /\ backoff' \in BOOLEAN
    BY <2>1, Zenon
  <2>3. QED
    BY <2>1, <2>2 DEF AcceptInv, RoomForOneMore, PausedMeansPaused, PauseHasAnEnd
<1>3. QED
  BY <1>1, <1>2

\* A client that is there changes or goes.
LEMMA BecomesKeeps ==
    ASSUME AcceptInv, NEW c \in Clients, cl[c].state # "free", NEW k, Becomes(c, k)
    PROVE  AcceptInv' /\ PauseHasAnEnd
<1>1. cl' = [cl EXCEPT ![c] = k]
  BY DEF Becomes
<1>2. Conns(cl') \subseteq Conns(cl) /\ cl' = [x \in Clients |-> cl'[x]]
  BY <1>1 DEF Conns, AcceptInv
<1>3. Conn(cl') <= Conn(cl)
  BY <1>2, ConnMonotone
<1>4. CASE UNCHANGED <<listener, backoff>>
  BY <1>2, <1>3, <1>4, ConnsFinite, RedsocksAssumption
     DEF AcceptInv, RoomForOneMore, PausedMeansPaused, PauseHasAnEnd
<1>5. CASE conn_pressure_lowered(cl')
  <2>1. listener' \in BOOLEAN /\ backoff' \in BOOLEAN
    BY <1>5, Zenon DEF conn_pressure_lowered
  <2>2. /\ listener' <=> listener \/ (backoff /\ Conn(cl') < ConnMax)
        /\ backoff' <=> backoff /\ ~(backoff /\ Conn(cl') < ConnMax)
    BY <1>5, Zenon DEF conn_pressure_lowered
  <2>3. QED
    BY <1>2, <1>3, <2>1, <2>2, ConnsFinite, RedsocksAssumption
       DEF AcceptInv, RoomForOneMore, PausedMeansPaused, PauseHasAnEnd
<1>6. QED
  BY <1>4, <1>5 DEF Becomes

\* Whatever leaves the listener and the timer alone, and adds no client.
LEMMA AcceptKept ==
    ASSUME AcceptInv, UNCHANGED <<listener, backoff>>, Conns(cl') \subseteq Conns(cl),
           cl' = [c \in Clients |-> cl'[c]]
    PROVE  AcceptInv' /\ PauseHasAnEnd
<1>1. Conn(cl') <= Conn(cl)
  BY ConnMonotone
<1>2. QED
  BY <1>1, ConnsFinite, RedsocksAssumption
     DEF AcceptInv, RoomForOneMore, PausedMeansPaused, PauseHasAnEnd

\* A callback of c drops it or leaves it there.
LEMMA Touches ==
    ASSUME AcceptInv, NEW c \in Clients, cl[c].state # "free", NEW k, cl' = [cl EXCEPT ![c] = k]
    PROVE  Conns(cl') \subseteq Conns(cl) /\ cl' = [x \in Clients |-> cl'[x]]
BY DEF Conns, AcceptInv

\* One step of the daemon.
LEMMA AcceptStep ==
    ASSUME AcceptInv, Next
    PROVE  AcceptInv' /\ PauseHasAnEnd
<1>1. CASE AcceptFails
  <2>1. CASE conn_pressure(cl)
    BY <1>1, <2>1, PressureKeeps, ConnsFinite DEF AcceptFails, AcceptInv
  <2>2. CASE UNCHANGED <<cl, listener, backoff>>
    BY <2>2, AcceptKept DEF AcceptInv
  <2>3. QED
    BY <1>1, <2>1, <2>2 DEF AcceptFails
<1>2. CASE redsocks_accept_backoff
  <2>1. backoff /\ ~listener
    BY <1>2 DEF redsocks_accept_backoff, AcceptInv, PausedMeansPaused
  <2>2. CASE Idle(cl) # {} /\ cl' = Without(cl, Idle(cl)) /\ backoff' = FALSE /\ UNCHANGED listener
    <3>1. cl' = [c \in Clients |-> cl'[c]]
      BY <2>2 DEF Without
    <3>2. backoff' \in BOOLEAN
      BY <2>2, Zenon
    <3>3. QED
      BY <2>1, <2>2, <3>1, <3>2 DEF AcceptInv, RoomForOneMore, PausedMeansPaused, PauseHasAnEnd
  <2>3. CASE UNCHANGED <<cl, listener, backoff>>
    BY <2>3, AcceptKept DEF AcceptInv
  <2>4. CASE Conn(cl) < ConnMax /\ backoff' = FALSE /\ listener' = TRUE /\ UNCHANGED cl
    <3>1. backoff' \in BOOLEAN /\ listener' \in BOOLEAN
      BY <2>4, Zenon
    <3>2. QED
      BY <2>4, <3>1 DEF AcceptInv, RoomForOneMore, PausedMeansPaused, PauseHasAnEnd
  <2>5. QED
    BY <1>2, <2>2, <2>3, <2>4 DEF redsocks_accept_backoff
<1>3. ASSUME NEW c \in Clients, redsocks_accept_client(c) PROVE AcceptInv' /\ PauseHasAnEnd
  <2> DEFINE all == [cl EXCEPT ![c] = Accepted]
  <2>1. listener /\ cl[c].state = "free"
    BY <1>3 DEF redsocks_accept_client
  <2>2. all = [x \in Clients |-> all[x]]
    BY DEF AcceptInv
  <2>3. Conns(all) = Conns(cl) \cup {c} /\ c \notin Conns(cl)
    BY <2>1 DEF AcceptInv, Conns, Accepted, Free
  <2>4. Conn(all) = Conn(cl) + 1
    BY <2>3, ConnsFinite, FS_AddElement DEF Conn
  <2>5. CASE Conn(all) >= ConnMax
    <3>1. conn_pressure(all)
      BY <1>3, <2>5 DEF redsocks_accept_client
    <3> HIDE DEF all
    <3>2. QED
      BY <2>1, <2>2, <2>4, <3>1, PressureKeeps, ConnsFinite
  <2>6. CASE ~(Conn(all) >= ConnMax)
    <3>1. cl' = all /\ UNCHANGED <<listener, backoff>>
      BY <1>3, <2>6 DEF redsocks_accept_client
    <3> HIDE DEF all
    <3>2. QED
      BY <2>2, <2>6, <3>1, ConnsFinite, RedsocksAssumption
         DEF AcceptInv, RoomForOneMore, PausedMeansPaused, PauseHasAnEnd
  <2>7. QED
    BY <2>5, <2>6
<1>4. ASSUME NEW c \in Clients, redsocks_relay_connected(c) \/ socks5_read_cb(c) \/ ClientBuffers(c) \/ Reset(c)
      PROVE  AcceptInv' /\ PauseHasAnEnd
  <2>1. cl[c].state # "free" /\ \E k : Becomes(c, k)
    BY <1>4 DEF redsocks_relay_connected, socks5_read_cb, ClientBuffers, Reset, Next5, redsocks_start_relay,
                redsocks_drop_client, Negotiation
  <2>2. QED
    BY <2>1, BecomesKeeps
<1>5. ASSUME NEW c \in Clients, NEW d \in Directions, redsplice_write_cb(c, d)
      PROVE  AcceptInv' /\ PauseHasAnEnd
  <2>1. cl[c].state # "free" /\ \E k : Becomes(c, k)
    BY <1>5 DEF redsplice_write_cb, redsocks_drop_client
  <2>2. QED
    BY <2>1, BecomesKeeps
<1>6. ASSUME NEW c \in Clients, cl[c].state # "free", NEW k, cl' = [cl EXCEPT ![c] = k],
             UNCHANGED <<listener, backoff>>
      PROVE  AcceptInv' /\ PauseHasAnEnd
  BY <1>6, Touches, AcceptKept
<1>7. ASSUME NEW c \in Clients, NEW d \in Directions, redsplice_read_cb(c, d)
      PROVE  AcceptInv' /\ PauseHasAnEnd
  <2>1. /\ cl[c].state # "free"
        /\ \E k : Becomes(c, k) \/ (cl' = [cl EXCEPT ![c] = k] /\ UNCHANGED <<listener, backoff>>)
    BY <1>7 DEF redsplice_read_cb
  <2>2. QED
    BY <1>6, <2>1, BecomesKeeps
<1>8. ASSUME NEW c \in Clients, NEW s \in Ends, redsocks_event_error(c, s)
      PROVE  AcceptInv' /\ PauseHasAnEnd
  <2>1. /\ cl[c].state # "free" /\ UNCHANGED <<listener, backoff>>
        /\ \E k : cl' = [cl EXCEPT ![c] = k]
    BY <1>8 DEF redsocks_event_error, Negotiation
  <2>2. QED
    BY <1>6, <2>1
<1>9. ASSUME NEW c \in Clients, Rest(c)
      PROVE  AcceptInv' /\ PauseHasAnEnd
  <2>1. /\ cl[c].state # "free" /\ UNCHANGED <<listener, backoff>>
        /\ \E k : cl' = [cl EXCEPT ![c] = k]
    BY <1>9 DEF Rest
  <2>2. QED
    BY <1>6, <2>1
<1>10. ASSUME NEW c \in Clients, NEW s \in Ends, Write(c, s) \/ End(c, s)
       PROVE  AcceptInv' /\ PauseHasAnEnd
  <2>1. UNCHANGED <<cl, listener, backoff>>
    BY <1>10 DEF Write, End
  <2>2. QED
    BY <2>1, AcceptKept DEF AcceptInv
<1>11. QED
  BY <1>1, <1>2, <1>3, <1>4, <1>5, <1>7, <1>8, <1>9, <1>10 DEF Next

\* The listener, the timer and the number of clients.
THEOREM Accepts == Spec => []AcceptInv
<1>1. Init => AcceptInv
  <2> SUFFICES ASSUME Init PROVE AcceptInv
    OBVIOUS
  <2>1. Conns(cl) = {} /\ cl = [c \in Clients |-> cl[c]]
    BY DEF Init, Conns, Free
  <2>2. Conn(cl) = 0
    BY <2>1, FS_EmptySet DEF Conn
  <2>3. listener \in BOOLEAN /\ backoff \in BOOLEAN
    BY Zenon DEF Init
  <2>4. RoomForOneMore /\ PausedMeansPaused
    BY <2>2, RedsocksAssumption DEF Init, RoomForOneMore, PausedMeansPaused
  <2>5. QED
    BY <2>1, <2>3, <2>4 DEF AcceptInv
<1>2. AcceptInv /\ [Next]_vars => AcceptInv'
  <2>1. ASSUME AcceptInv, UNCHANGED vars PROVE AcceptInv'
    BY <2>1, AcceptKept DEF AcceptInv, vars
  <2>2. QED
    BY <2>1, AcceptStep
<1>3. QED
  BY <1>1, <1>2, PTL DEF Spec

\* redsocks accepts below its limit only, not while it is paused, and pauses
\* without a timer only where the timer's own callback dropped clients.
THEOREM AcceptingCorrect == Spec => Accepting
<1>1. AcceptInv /\ AcceptInv' /\ [Next]_vars => [RoomForOneMore' /\ PausedMeansPaused' /\ PauseHasAnEnd]_vars
  BY AcceptStep DEF AcceptInv
<1>2. QED
  BY <1>1, Accepts, PTL DEF Spec, Accepting

------------------------------------------------------------------------------
(* The bytes of a stream *)

\* The bytes 1, 2, ... r of a stream, and m that follow them.
First(r) == [i \in 1..r |-> i]
After(r, m) == [i \in 1..m |-> r + i]

\* The bytes that were read are a sequence as long as their number.
LEMMA FirstIsSeq ==
    ASSUME NEW r \in Nat
    PROVE  First(r) \in Seq(Nat) /\ Len(First(r)) = r
<1>1. First(r) \in [1 .. r -> Nat]
  BY DEF First
<1>2. First(r) \in Seq(Nat)
  BY <1>1, SeqDef
<1>3. DOMAIN First(r) = 1 .. r /\ DOMAIN First(r) = 1 .. Len(First(r)) /\ Len(First(r)) \in Nat
  BY <1>1, <1>2, LenProperties
<1>4. QED
  BY <1>2, <1>3

\* So are those that a chunk adds.
LEMMA AfterIsSeq ==
    ASSUME NEW r \in Nat, NEW m \in Nat
    PROVE  After(r, m) \in Seq(Nat) /\ Len(After(r, m)) = m
<1>1. After(r, m) \in [1 .. m -> Nat]
  BY DEF After
<1>2. After(r, m) \in Seq(Nat)
  BY <1>1, SeqDef
<1>3. /\ DOMAIN After(r, m) = 1 .. m /\ DOMAIN After(r, m) = 1 .. Len(After(r, m))
      /\ Len(After(r, m)) \in Nat
  BY <1>1, <1>2, LenProperties
<1>4. QED
  BY <1>2, <1>3

\* A chunk follows on what was read before it.
LEMMA FirstExtended ==
    ASSUME NEW r \in Nat, NEW m \in Nat
    PROVE  First(r) \o After(r, m) = First(r + m)
<1> DEFINE f == First(r)
           a == After(r, m)
           g == First(r + m)
<1>1. r + m \in Nat
  OBVIOUS
<1>2. f \in Seq(Nat) /\ Len(f) = r /\ a \in Seq(Nat) /\ Len(a) = m /\ g \in Seq(Nat) /\ Len(g) = r + m
  BY <1>1, FirstIsSeq, AfterIsSeq
<1>3. (\A i \in 1 .. r : f[i] = i) /\ (\A i \in 1 .. m : a[i] = r + i) /\ (\A i \in 1 .. r + m : g[i] = i)
  BY DEF First, After
<1> HIDE DEF f, a, g
<1>4. f \o a \in Seq(Nat) /\ Len(f \o a) = r + m
      /\ \A i \in 1 .. r + m : (f \o a)[i] = IF i <= r THEN f[i] ELSE a[i - r]
  BY <1>2, ConcatProperties
<1>5. \A i \in 1 .. r + m : (f \o a)[i] = g[i]
  BY <1>3, <1>4
<1>6. f \o a = g
  BY <1>2, <1>4, <1>5, SeqEqual
<1>7. QED
  BY <1>6 DEF f, a, g

\* What follows the first n elements.
LEMMA Suffix ==
    ASSUME NEW p \in Seq(Nat), NEW n \in Nat, n <= Len(p)
    PROVE  /\ SubSeq(p, n + 1, Len(p)) \in Seq(Nat) /\ Len(SubSeq(p, n + 1, Len(p))) = Len(p) - n
           /\ \A i \in 1 .. Len(p) - n : SubSeq(p, n + 1, Len(p))[i] = p[n + i]
<1>1. Len(p) \in Nat /\ \A i \in 1 .. Len(p) : p[i] \in Nat
  BY LenProperties, ElementOfSeq
<1>2. QED
  BY <1>1, SubSeqProperties

\* A sequence is cut in two.
LEMMA Cut ==
    ASSUME NEW p \in Seq(Nat), NEW n \in Nat, n <= Len(p)
    PROVE  /\ SubSeq(p, 1, n) \in Seq(Nat) /\ Len(SubSeq(p, 1, n)) = n
           /\ SubSeq(p, 1, n) \o SubSeq(p, n + 1, Len(p)) = p
<1>1. Len(p) \in Nat /\ \A i \in 1 .. Len(p) : p[i] \in Nat
  BY LenProperties, ElementOfSeq
<1> DEFINE a == SubSeq(p, 1, n)
           b == SubSeq(p, n + 1, Len(p))
<1>2. a \in Seq(Nat) /\ Len(a) = n /\ \A i \in 1 .. n : a[i] = p[i]
  BY <1>1, SubSeqProperties
<1>3. b \in Seq(Nat) /\ Len(b) = Len(p) - n /\ \A i \in 1 .. Len(p) - n : b[i] = p[n + i]
  BY Suffix
<1> HIDE DEF a, b
<1>4. a \o b \in Seq(Nat) /\ Len(a \o b) = Len(p)
      /\ \A i \in 1 .. Len(p) : (a \o b)[i] = IF i <= n THEN a[i] ELSE b[i - n]
  BY <1>1, <1>2, <1>3, ConcatProperties, SMTT(30)
<1>5. \A i \in 1 .. Len(p) : (a \o b)[i] = p[i]
  BY <1>1, <1>2, <1>3, <1>4, SMTT(30)
<1>6. a \o b = p
  BY <1>4, <1>5, SeqEqual
<1>7. QED
  BY <1>2, <1>3, <1>6 DEF a, b

\* n bytes are written and the buffer is not empty then.
LEMMA LeftOfBuffer ==
    ASSUME NEW i \in Seq(Nat), NEW p \in Seq(Nat), NEW n \in Nat, n <= Len(i)
    PROVE  SubSeq(i, n + 1, Len(i)) \o p = SubSeq(i \o p, n + 1, Len(i \o p))
<1> DEFINE q == i \o p
           a == SubSeq(i, n + 1, Len(i))
           w == SubSeq(q, n + 1, Len(q))
<1>1. /\ Len(i) \in Nat /\ Len(p) \in Nat
      /\ q \in Seq(Nat) /\ Len(q) = Len(i) + Len(p)
      /\ \A j \in 1 .. Len(i) + Len(p) : q[j] = IF j <= Len(i) THEN i[j] ELSE p[j - Len(i)]
  BY LenProperties, ConcatProperties
<1>2. a \in Seq(Nat) /\ Len(a) = Len(i) - n /\ \A j \in 1 .. Len(i) - n : a[j] = i[n + j]
  BY Suffix
<1> HIDE DEF q
<1>3. w \in Seq(Nat) /\ Len(w) = Len(q) - n /\ \A j \in 1 .. Len(q) - n : w[j] = q[n + j]
  <2>1. q \in Seq(Nat) /\ n <= Len(q)
    BY <1>1
  <2>2. QED
    BY <2>1, Suffix
<1> HIDE DEF a, w
<1>4. a \o p \in Seq(Nat) /\ Len(a \o p) = Len(a) + Len(p)
      /\ \A j \in 1 .. Len(a) + Len(p) : (a \o p)[j] = IF j <= Len(a) THEN a[j] ELSE p[j - Len(a)]
  <2>1. a \in Seq(Nat) /\ p \in Seq(Nat)
    BY <1>2
  <2>2. QED
    BY <2>1, ConcatProperties
<1>5. Len(a \o p) = Len(w)
  BY <1>1, <1>2, <1>3, <1>4
<1>6. ASSUME NEW j \in 1 .. Len(w) PROVE (a \o p)[j] = w[j]
  <2>1. j \in 1 .. Len(a) + Len(p) /\ j \in 1 .. Len(q) - n /\ n + j \in 1 .. Len(i) + Len(p)
    BY <1>1, <1>2, <1>3
  <2>2. w[j] = q[n + j]
    BY <1>3, <2>1
  <2>3. CASE j <= Len(a)
    <3>1. (a \o p)[j] = a[j]
      BY <1>4, <2>1, <2>3
    <3>2. a[j] = i[n + j] /\ n + j <= Len(i)
      BY <1>1, <1>2, <2>1, <2>3
    <3>3. q[n + j] = i[n + j]
      BY <1>1, <2>1, <3>2
    <3>4. QED
      BY <2>2, <3>1, <3>2, <3>3
  <2>4. CASE j > Len(a)
    <3>1. j \in Nat /\ Len(a) = Len(i) - n /\ Len(i) \in Nat
      BY <1>1, <1>2
    <3>2. ~(j <= Len(a)) /\ ~(n + j <= Len(i)) /\ n + j - Len(i) = j - Len(a)
      BY <2>4, <3>1
    <3>3. (a \o p)[j] = p[j - Len(a)]
      BY <1>4, <2>1, <3>2
    <3>4. q[n + j] = p[n + j - Len(i)]
      BY <1>1, <2>1, <3>2, SMTT(30)
    <3>5. QED
      BY <2>2, <3>2, <3>3, <3>4
  <2>5. Len(a) \in Nat /\ j \in Nat
    BY <1>2, LenProperties
  <2>6. j <= Len(a) \/ j > Len(a)
    BY <2>5
  <2>7. QED
    BY <2>3, <2>4, <2>6
<1>7. a \o p = w
  BY <1>3, <1>4, <1>5, <1>6, SeqEqual
<1>8. QED
  BY <1>7 DEF q, a, w

\* n bytes are written, the whole buffer and some of the pipe.
LEMMA LeftOfPipe ==
    ASSUME NEW i \in Seq(Nat), NEW p \in Seq(Nat), NEW n \in Nat, n >= Len(i), n <= Len(i) + Len(p)
    PROVE  SubSeq(p, n - Len(i) + 1, Len(p)) = SubSeq(i \o p, n + 1, Len(i \o p))
<1> DEFINE q == i \o p
           m == n - Len(i)
           b == SubSeq(p, m + 1, Len(p))
           w == SubSeq(q, n + 1, Len(q))
<1>1. /\ Len(i) \in Nat /\ Len(p) \in Nat
      /\ q \in Seq(Nat) /\ Len(q) = Len(i) + Len(p)
      /\ \A j \in 1 .. Len(i) + Len(p) : q[j] = IF j <= Len(i) THEN i[j] ELSE p[j - Len(i)]
  BY LenProperties, ConcatProperties
<1>2. m \in Nat /\ m <= Len(p)
  BY <1>1
<1>3. b \in Seq(Nat) /\ Len(b) = Len(p) - m /\ \A j \in 1 .. Len(p) - m : b[j] = p[m + j]
  <2> HIDE DEF m
  <2> QED  BY <1>2, Suffix
<1> HIDE DEF q
<1>4. w \in Seq(Nat) /\ Len(w) = Len(q) - n /\ \A j \in 1 .. Len(q) - n : w[j] = q[n + j]
  <2>1. q \in Seq(Nat) /\ n <= Len(q)
    BY <1>1
  <2>2. QED
    BY <2>1, Suffix
<1> HIDE DEF b, w
<1>5. Len(b) = Len(w)
  BY <1>1, <1>3, <1>4
<1>6. ASSUME NEW j \in 1 .. Len(b) PROVE b[j] = w[j]
  <2>0. j \in 1 .. Len(p) - m /\ j \in 1 .. Len(q) - n
    <3>1. Len(b) = Len(p) - m /\ Len(b) = Len(q) - n
      BY <1>3, <1>4, <1>5
    <3>2. QED
      BY <3>1
  <2>1. b[j] = p[m + j] /\ w[j] = q[n + j]
    BY <1>3, <1>4, <2>0
  <2>2. n + j \in 1 .. Len(i) + Len(p) /\ n + j > Len(i) /\ n + j - Len(i) = m + j
    BY <1>1, <2>0
  <2>3. q[n + j] = p[m + j]
    BY <1>1, <2>2, SMTT(30)
  <2>4. QED
    BY <2>1, <2>3
<1>7. b = w
  BY <1>3, <1>4, <1>5, <1>6, SeqEqual
<1>8. QED
  BY <1>7 DEF q, b, w

\* Where a sequence is cut does not matter.
LEMMA ConcatInTurn ==
    \A x, y, z \in Seq(Nat) : (x \o y) \o z = x \o (y \o z)
BY ConcatAssociative, SMTT(30)

\* What SubSeq leaves of a buffer, however much was taken.
LEMMA SuffixIsSeq ==
    ASSUME NEW p \in Seq(Nat), NEW n \in Nat
    PROVE  SubSeq(p, n + 1, Len(p)) \in Seq(Nat)
<1>1. Len(p) \in Nat
  BY LenProperties
<1>2. CASE n <= Len(p)
  BY <1>2, Suffix
<1>3. CASE n > Len(p)
  <2>1. SubSeq(p, n + 1, Len(p)) = <<>>
    BY <1>1, <1>3, SubSeqEmpty
  <2>2. QED
    BY <2>1, EmptySeq
<1>4. QED
  BY <1>1, <1>2, <1>3

\* What SubSeq takes of a buffer.
LEMMA PrefixIsSeq ==
    ASSUME NEW p \in Seq(Nat), NEW n \in 0 .. Len(p)
    PROVE  SubSeq(p, 1, n) \in Seq(Nat) /\ Len(SubSeq(p, 1, n)) = n
<1>1. Len(p) \in Nat
  BY LenProperties
<1>2. QED
  BY <1>1, Cut

\* n bytes of a buffer i and a pipe p are handed over after o: what has been
\* handed over then, and what is left in either.
Handed(o, i, p, n) == o \o SubSeq(i \o p, 1, n)
LeftIn(i, n) == SubSeq(i, n + 1, Len(i))
LeftOf(i, p, n) == SubSeq(p, (IF n > Len(i) THEN n - Len(i) ELSE 0) + 1, Len(p))

\* What was written and what is left are what there was.
LEMMA WrittenAndLeft ==
    ASSUME NEW o \in Seq(Nat), NEW i \in Seq(Nat), NEW p \in Seq(Nat), NEW n \in 0 .. Len(i \o p)
    PROVE  Handed(o, i, p, n) \o (LeftIn(i, n) \o LeftOf(i, p, n)) = o \o (i \o p)
<1> DEFINE m == IF n > Len(i) THEN n - Len(i) ELSE 0
           q == i \o p
           a == SubSeq(q, 1, n)
           w == SubSeq(q, n + 1, Len(q))
           i2 == SubSeq(i, n + 1, Len(i))
           p2 == SubSeq(p, m + 1, Len(p))
<1>1. q \in Seq(Nat) /\ Len(q) = Len(i) + Len(p) /\ Len(i) \in Nat /\ Len(p) \in Nat
  BY ConcatProperties, LenProperties
<1>2. n \in Nat /\ n <= Len(q)
  BY <1>1
<1>3. a \in Seq(Nat) /\ a \o w = q
  <2> HIDE DEF q
  <2> QED  BY <1>1, <1>2, Cut
<1>4. w \in Seq(Nat)
  <2> HIDE DEF q
  <2> QED  BY <1>1, <1>2, Suffix
<1>5. i2 \in Seq(Nat) /\ p2 \in Seq(Nat) /\ i2 \o p2 = w
  <2>1. CASE n <= Len(i)
    <3>1. m = 0
      BY <1>1, <1>2, <2>1
    <3>2. p2 = p
      <4>0. m + 1 = 1
        BY <3>1
      <4>1. p2 = SubSeq(p, 1, Len(p))
        BY <4>0, Zenon
      <4>2. QED
        BY <4>1, SubSeqFull, Zenon
    <3>3. i2 \in Seq(Nat)
      BY <1>2, <2>1, Suffix
    <3>4. i2 \o p = w
      BY <1>2, <2>1, LeftOfBuffer
    <3>5. QED
      BY <3>2, <3>3, <3>4
  <2>2. CASE n > Len(i)
    <3>1. m = n - Len(i) /\ m \in Nat /\ m <= Len(p)
      BY <1>1, <1>2, <2>2
    <3>2. i2 = <<>> /\ i2 \in Seq(Nat)
      BY <1>1, <1>2, <2>2, SubSeqEmpty, EmptySeq
    <3>3. p2 \in Seq(Nat)
      BY <3>1, Suffix
    <3>4. p2 = w
      BY <1>1, <1>2, <2>2, <3>1, LeftOfPipe
    <3>5. <<>> \o p2 = p2
      BY <3>3, ConcatEmptySeq
    <3>6. QED
      BY <3>2, <3>3, <3>4, <3>5
  <2>3. QED
    <3>1. n <= Len(i) \/ n > Len(i)
      BY <1>1, <1>2
    <3> HIDE DEF i2, p2, w
    <3>2. QED
      BY <2>1, <2>2, <3>1
<1> HIDE DEF a, w, i2, p2, q
<1>6. o \o a \in Seq(Nat)
  BY <1>3, ConcatProperties
<1>7. (o \o a) \o w = o \o (a \o w)
  <2>1. a \in Seq(Nat) /\ w \in Seq(Nat)
    BY <1>3, <1>4
  <2>2. QED
    BY <2>1, ConcatInTurn, Zenon
<1>8. (o \o a) \o (i2 \o p2) = o \o q
  BY <1>3, <1>5, <1>7
<1>9. QED
  BY <1>8 DEF a, w, i2, p2, q, Handed, LeftIn, LeftOf

\* Bytes are read into the buffer while there is no pipe.
LEMMA ReadIntoBuffer ==
    ASSUME NEW o \in Seq(Nat), NEW i \in Seq(Nat), NEW r \in Nat, NEW m \in Nat,
           o \o (i \o <<>>) = First(r)
    PROVE  i \o After(r, m) \in Seq(Nat) /\ o \o ((i \o After(r, m)) \o <<>>) = First(r + m)
<1> DEFINE a == After(r, m)
<1>1. a \in Seq(Nat)
  BY AfterIsSeq
<1>2. First(r) \o a = First(r + m)
  BY FirstExtended
<1> HIDE DEF a
<1>3. i \o a \in Seq(Nat) /\ i \o <<>> = i
  BY <1>1, ConcatProperties, ConcatEmptySeq
<1>4. (i \o a) \o <<>> = i \o a
  BY <1>3, ConcatEmptySeq
<1>5. (o \o i) \o a = o \o (i \o a)
  BY <1>1, ConcatInTurn, ZenonT(30)
<1>6. QED
  BY <1>2, <1>3, <1>4, <1>5 DEF a

------------------------------------------------------------------------------
(* The pumps *)

Client ==
    [state : States, shut : [Ends -> SUBSET {"R", "W"}], on : SUBSET Events, active : SUBSET Events,
     input : Seq(Nat), pipe : [Directions -> Seq(Nat)], out : [Directions -> Seq(Nat)], old : BOOLEAN]

Socket == [pos : Nat, read : Nat, fin : BOOLEAN]

\* The sockets: no more is read than was sent.
SocketsOK(c, n) ==
    /\ n \in [Ends -> Socket]
    /\ \A s \in Ends : n[s].read <= n[s].pos /\ n[s].pos <= Bytes(c, s)

\* A slot that is free is empty, and a pipe is used by the pump only.
StageOK(k, n) ==
    /\ k.state = "free" => k = Free /\ n = Quiet
    /\ k.state \in Negotiation => k.pipe["request"] = <<>>

\* What was written and what waits are what was read.
BytesOK(k, n) == \A d \in Directions : k.out[d] \o Pending(k, d) = First(n[Src(d)].read)

\* An end whose stream was read to its end, and one that was told so.
EndsOK(k, n) ==
    /\ \A s \in Ends : "R" \in k.shut[s] => n[s].fin /\ n[s].read = n[s].pos
    /\ \A d \in Directions :
          "W" \in k.shut[Dst(d)] => n[Src(d)].fin /\ Len(k.out[d]) = n[Src(d)].pos

\* The events of direction d.
WaitsFor(k, d) ==
    \/ Ev(Dst(d), "W") \in k.on \cup k.active
    \/ Pending(k, d) = <<>> /\ Ev(Src(d), "R") \in k.on
    \/ "W" \in k.shut[Dst(d)]

EventsOK(k) == k.state = "pump_active" => \A d \in Directions : WaitsFor(k, d)

(***************************************************************************)
(* A client and its sockets.  That the end of a stream is relayed after    *)
(* its data needs more than it says: a side is only marked as read to its  *)
(* end when nothing is left to read, which stays so as its stream is over. *)
(* That no byte is lost when the pump starts needs the pipe to be empty    *)
(* while the client's bytes go to the buffer, and a new client needs the   *)
(* sockets of the old one to be closed.                                    *)
(***************************************************************************)
PumpOK(c, k, n) ==
    k \in Client /\ SocketsOK(c, n) /\ StageOK(k, n) /\ BytesOK(k, n) /\ EndsOK(k, n) /\ EventsOK(k)

PumpsOK ==
    /\ cl \in [Clients -> Client] /\ net \in [Clients -> [Ends -> Socket]]
    /\ \A c \in Clients : PumpOK(c, cl[c], net[c])

\* The two directions and the ends they join.
LEMMA ByDirection ==
    /\ Src("request") = "client" /\ Dst("request") = "relay"
    /\ Src("reply") = "relay" /\ Dst("reply") = "client"
    /\ Directions = {"request", "reply"} /\ Ends = {"client", "relay"}
BY DEF Src, Dst, Directions, Ends

\* What waits and what was written are sequences of bytes.
LEMMA PendingIsSeq ==
    ASSUME NEW k \in Client, NEW d \in Directions
    PROVE  Pending(k, d) \in Seq(Nat) /\ k.out[d] \in Seq(Nat)
<1>1. k.out[d] \in Seq(Nat) /\ k.pipe[d] \in Seq(Nat) /\ k.input \in Seq(Nat)
  BY DEF Client
<1> DEFINE i == IF d = "request" THEN k.input ELSE <<>>
<1>2. i \in Seq(Nat)
  BY <1>1, EmptySeq
<1> HIDE DEF i
<1>3. i \o k.pipe[d] \in Seq(Nat)
  BY <1>1, <1>2, ConcatProperties
<1>4. QED
  BY <1>1, <1>3 DEF Pending, i

\* A free slot.
LEMMA FreeOK ==
    ASSUME NEW c \in Clients
    PROVE  PumpOK(c, Free, Quiet)
<1>1. Free \in Client
  <2>1. <<>> \in Seq(Nat)
    BY EmptySeq
  <2>2. FALSE \in BOOLEAN
    BY Zenon
  <2>3. QED
    BY <2>1, <2>2 DEF Free, Client, States
<1>2. SocketsOK(c, Quiet)
  <2>1. FALSE \in BOOLEAN
    BY Zenon
  <2>2. Quiet \in [Ends -> Socket]
    BY <2>1 DEF Quiet, Socket
  <2>3. QED
    BY <2>2, RedsocksAssumption DEF SocketsOK, Quiet, Bytes
<1>3. StageOK(Free, Quiet) /\ EventsOK(Free)
  BY DEF StageOK, EventsOK, Free, Negotiation
<1>4. EndsOK(Free, Quiet)
  BY ByDirection DEF EndsOK, Free
<1>5. BytesOK(Free, Quiet)
  <2>1. ASSUME NEW d \in Directions PROVE Free.out[d] \o Pending(Free, d) = First(Quiet[Src(d)].read)
    <3>1. Free.out[d] = <<>> /\ Free.pipe[d] = <<>> /\ Free.input = <<>>
      BY DEF Free
    <3>2. Pending(Free, d) = <<>> \o <<>>
      BY <3>1 DEF Pending
    <3>3. <<>> \o <<>> = <<>>
      BY EmptySeq, ConcatEmptySeq
    <3>4. Quiet[Src(d)].read = 0
      BY DEF Quiet, Src, Ends
    <3>5. First(0) = <<>>
      BY FirstIsSeq, EmptySeq
    <3>6. QED
      BY <3>1, <3>2, <3>3, <3>4, <3>5
  <2>2. QED
    BY <2>1 DEF BytesOK
<1>6. QED
  BY <1>1, <1>2, <1>3, <1>4, <1>5 DEF PumpOK

\* The fields that do not matter to the bytes.
LEMMA BytesSame ==
    ASSUME NEW k, NEW t, NEW n, BytesOK(k, n), t.out = k.out, t.input = k.input, t.pipe = k.pipe
    PROVE  BytesOK(t, n)
BY DEF BytesOK, Pending

\* redsocks_accept_client
LEMMA AcceptedOK ==
    ASSUME NEW c \in Clients
    PROVE  PumpOK(c, Accepted, Quiet)
<1>1. PumpOK(c, Free, Quiet)
  BY FreeOK
<1>2. Accepted \in Client /\ Accepted.state = "socks5_new"
  BY <1>1 DEF PumpOK, Accepted, Client, States, Negotiation
<1>3. Accepted.out = Free.out /\ Accepted.input = Free.input /\ Accepted.pipe = Free.pipe /\ Accepted.shut = Free.shut
  BY DEF Accepted, Free
<1>4. BytesOK(Accepted, Quiet)
  BY <1>1, <1>3, BytesSame DEF PumpOK
<1>5. Accepted.pipe["request"] = <<>>
  BY <1>3 DEF Free, Directions
<1>6. QED
  BY <1>1, <1>2, <1>3, <1>4, <1>5 DEF PumpOK, StageOK, EndsOK, EventsOK

\* A client whose bytes, ends and sockets are left alone.
LEMMA OthersOK ==
    ASSUME NEW c, NEW k, NEW n, PumpOK(c, k, n), NEW t \in Client,
           t.out = k.out, t.input = k.input, t.pipe = k.pipe, t.shut = k.shut,
           t.state # "free", t.state \in Negotiation => k.state \in Negotiation, EventsOK(t)
    PROVE  PumpOK(c, t, n)
<1>1. BytesOK(t, n)
  BY BytesSame DEF PumpOK
<1>2. QED
  BY <1>1 DEF PumpOK, StageOK, EndsOK

\* redsocks_write_helper
LEMMA NegotiateOK ==
    ASSUME NEW c, NEW k, NEW n, PumpOK(c, k, n), k.state \in Negotiation, NEW state \in Negotiation
    PROVE  PumpOK(c, [Touched(k) EXCEPT !.state = state], n)
<1> DEFINE t == [Touched(k) EXCEPT !.state = state]
<1>0. FALSE \in BOOLEAN
  BY Zenon
<1>1. t \in Client
  BY <1>0 DEF PumpOK, Client, Touched, States
<1>2. /\ t.out = k.out /\ t.input = k.input /\ t.pipe = k.pipe /\ t.shut = k.shut /\ t.state = state
  BY DEF PumpOK, Client, Touched
<1> HIDE DEF t
<1>3. t.state # "free" /\ EventsOK(t)
  BY <1>2 DEF EventsOK, Negotiation
<1>4. PumpOK(c, t, n)
  BY <1>1, <1>2, <1>3, OthersOK
<1>5. QED
  BY <1>4 DEF t

\* redsocks_start_relay
LEMMA StartOK ==
    ASSUME NEW c, NEW k, NEW n, PumpOK(c, k, n), k.state \in Negotiation
    PROVE  PumpOK(c, [Touched(k) EXCEPT !.state = "pump_active", !.on = {Ev(s, "R") : s \in Ends},
                                        !.active = {Ev(s, "W") : s \in Ends}], n)
<1> DEFINE on == {Ev(s, "R") : s \in Ends}
           active == {Ev(s, "W") : s \in Ends}
           t == [Touched(k) EXCEPT !.state = "pump_active", !.on = on, !.active = active]
<1>0. FALSE \in BOOLEAN
  BY Zenon
<1>1. on \subseteq Events /\ active \subseteq Events
  BY DEF Ev, Events
<1>2. \A d \in Directions : Ev(Dst(d), "W") \in active
  BY DEF Dst, Ends
<1> HIDE DEF on, active
<1>3. t \in Client
  BY <1>0, <1>1 DEF PumpOK, Client, Touched, States
<1>4. /\ t.out = k.out /\ t.input = k.input /\ t.pipe = k.pipe /\ t.shut = k.shut /\ t.state = "pump_active"
      /\ t.active = active
  BY DEF PumpOK, Client, Touched
<1> HIDE DEF t
<1>5. EventsOK(t)
  BY <1>2, <1>4 DEF EventsOK, WaitsFor
<1>6. PumpOK(c, t, n)
  BY <1>3, <1>4, <1>5, OthersOK DEF Negotiation
<1>7. QED
  BY <1>6 DEF t, on, active

\* Time passes.
LEMMA RestOK ==
    ASSUME NEW c, NEW k, NEW n, PumpOK(c, k, n), k.state # "free", NEW old \in BOOLEAN
    PROVE  PumpOK(c, [k EXCEPT !.old = old], n)
<1> DEFINE t == [k EXCEPT !.old = old]
<1>1. t \in Client
  BY DEF PumpOK, Client
<1>2. /\ t.out = k.out /\ t.input = k.input /\ t.pipe = k.pipe /\ t.shut = k.shut /\ t.state = k.state
      /\ t.on = k.on /\ t.active = k.active
  BY DEF PumpOK, Client
<1> HIDE DEF t
<1>3. EventsOK(t)
  BY <1>2 DEF PumpOK, EventsOK, WaitsFor, Pending
<1>4. PumpOK(c, t, n)
  BY <1>1, <1>2, <1>3, OthersOK
<1>5. QED
  BY <1>4 DEF t

\* The client is read into the buffer.
LEMMA BufferOK ==
    ASSUME NEW c, NEW k, NEW n, PumpOK(c, k, n), k.state \in Negotiation,
           NEW m \in 1 .. n["client"].pos - n["client"].read
    PROVE  PumpOK(c, [k EXCEPT !.input = @ \o After(n["client"].read, m)],
                     [n EXCEPT !["client"].read = @ + m])
<1> DEFINE r == n["client"].read
           i == k.input \o After(r, m)
           t == [k EXCEPT !.input = i]
           v == [n EXCEPT !["client"].read = @ + m]
<1>1. /\ r \in Nat /\ m \in Nat /\ m >= 1 /\ r + m <= n["client"].pos /\ n["client"].pos \in Nat
      /\ n["relay"].read \in Nat
  BY DEF PumpOK, SocketsOK, Socket, Ends
<1>2. k.out["request"] \o (k.input \o <<>>) = First(r)
  BY ByDirection DEF PumpOK, BytesOK, Pending, StageOK
<1>3. k.out["request"] \in Seq(Nat) /\ k.input \in Seq(Nat) /\ k.pipe["request"] = <<>>
  BY ByDirection DEF PumpOK, Client, StageOK
<1>4. i \in Seq(Nat) /\ k.out["request"] \o (i \o <<>>) = First(r + m)
  BY <1>1, <1>2, <1>3, ReadIntoBuffer
<1>5. /\ v \in [Ends -> Socket] /\ v["client"].read = r + m /\ v["client"].pos = n["client"].pos
      /\ v["client"].fin = n["client"].fin /\ v["relay"] = n["relay"]
  BY <1>1 DEF PumpOK, SocketsOK, Socket, Ends
<1> HIDE DEF i, v
<1>6. t \in Client
  BY <1>4 DEF PumpOK, Client
<1>7. /\ t.out = k.out /\ t.input = i /\ t.pipe = k.pipe /\ t.shut = k.shut /\ t.state = k.state
  BY DEF PumpOK, Client
<1> HIDE DEF t, r
<1>8. SocketsOK(c, v)
  BY <1>1, <1>5, ByDirection DEF PumpOK, SocketsOK, r
<1>9. StageOK(t, v) /\ EventsOK(t)
  BY <1>3, <1>7 DEF StageOK, EventsOK, Negotiation
<1>10. BytesOK(t, v)
  <2>1. t.out["request"] \o Pending(t, "request") = First(v["client"].read)
    BY <1>3, <1>4, <1>5, <1>7 DEF Pending
  <2>2. t.out["reply"] \o Pending(t, "reply") = First(v["relay"].read)
    BY <1>5, <1>7, ByDirection DEF Pending, PumpOK, BytesOK
  <2>3. QED
    BY <2>1, <2>2, ByDirection DEF BytesOK
<1>11. EndsOK(t, v)
  BY <1>1, <1>5, <1>7, ByDirection DEF PumpOK, EndsOK, r
<1>12. PumpOK(c, t, v)
  BY <1>6, <1>8, <1>9, <1>10, <1>11 DEF PumpOK
<1>13. QED
  BY <1>12 DEF t, v, i, r

\* An end sends a byte or ends its stream.
LEMMA SentOK ==
    ASSUME NEW c, NEW k, NEW n, PumpOK(c, k, n), k.state # "free", NEW s \in Ends, ~n[s].fin,
           NEW v \in [Ends -> Socket], \A x \in Ends \ {s} : v[x] = n[x], v[s].read = n[s].read,
           v[s].pos >= n[s].pos, v[s].pos <= Bytes(c, s)
    PROVE  PumpOK(c, k, v)
<1>1. SocketsOK(c, v)
  BY DEF PumpOK, SocketsOK, Socket
<1>2. StageOK(k, v) /\ EventsOK(k)
  BY DEF PumpOK, StageOK
<1>3. \A d \in Directions : Src(d) \in Ends /\ Dst(d) \in Ends
  BY DEF Src, Dst, Ends
<1>4. BytesOK(k, v)
  BY <1>3 DEF PumpOK, BytesOK
<1>5. EndsOK(k, v)
  BY <1>3 DEF PumpOK, EndsOK
<1>6. QED
  BY <1>1, <1>2, <1>4, <1>5 DEF PumpOK

\* redsocks_event_error with EOF
LEMMA ErrorOK ==
    ASSUME NEW c, NEW k, NEW n, PumpOK(c, k, n), k.state \in Negotiation, NEW s \in Ends,
           n[s].fin, n[s].pos = n[s].read
    PROVE  PumpOK(c, [Touched(k) EXCEPT !.shut[s] = @ \cup {"R"}], n)
<1> DEFINE t == [Touched(k) EXCEPT !.shut[s] = @ \cup {"R"}]
<1>0. FALSE \in BOOLEAN
  BY Zenon
<1>1. k.shut[s] \cup {"R"} \subseteq {"R", "W"}
  BY DEF PumpOK, Client
<1>2. /\ t.out = k.out /\ t.input = k.input /\ t.pipe = k.pipe /\ t.state = k.state
      /\ t.shut = [k.shut EXCEPT ![s] = @ \cup {"R"}]
  BY DEF PumpOK, Client, Touched
<1>3. t \in Client
  BY <1>0, <1>1 DEF PumpOK, Client, Touched
<1> HIDE DEF t
<1>4. \A x \in Ends : t.shut[x] = k.shut[x] \/ (x = s /\ t.shut[x] = k.shut[x] \cup {"R"})
  BY <1>2 DEF PumpOK, Client
<1>5. \A d \in Directions : Src(d) \in Ends /\ Dst(d) \in Ends
  BY DEF Src, Dst, Ends
<1>6. EndsOK(t, n)
  BY <1>2, <1>4, <1>5 DEF PumpOK, EndsOK
<1>7. BytesOK(t, n)
  BY <1>2, BytesSame DEF PumpOK
<1>8. StageOK(t, n) /\ EventsOK(t)
  BY <1>2 DEF PumpOK, StageOK, EventsOK, Negotiation
<1>9. PumpOK(c, t, n)
  BY <1>3, <1>6, <1>7, <1>8 DEF PumpOK
<1>10. QED
  BY <1>9 DEF t

\* The events of the two directions are different ones.
LEMMA EventsApart ==
    ASSUME NEW d \in Directions, NEW e \in Directions \ {d}
    PROVE  /\ Src(d) \in Ends /\ Dst(d) \in Ends /\ Src(d) # Dst(d) /\ Src(e) = Dst(d) /\ Dst(e) = Src(d)
           /\ Ev(Src(d), "R") \in Events /\ Ev(Dst(d), "W") \in Events
           /\ Ev(Src(e), "R") # Ev(Src(d), "R") /\ Ev(Src(e), "R") # Ev(Dst(d), "W")
           /\ Ev(Dst(e), "W") # Ev(Src(d), "R") /\ Ev(Dst(e), "W") # Ev(Dst(d), "W")
           /\ Ev(Dst(d), "W") # Ev(Src(d), "R")
BY DEF Directions, Ends, Src, Dst, Ev, Events

\* Both directions have another.
LEMMA Opposite ==
    ASSUME NEW d \in Directions
    PROVE  /\ Src(d) \in Ends /\ Dst(d) \in Ends /\ Src(d) # Dst(d)
           /\ Ev(Src(d), "R") \in Events /\ Ev(Dst(d), "W") \in Events
           /\ Ev(Dst(d), "W") # Ev(Src(d), "R")
BY DEF Directions, Ends, Src, Dst, Ev, Events

\* redsplice_read_cb with a full pipe
LEMMA FullOK ==
    ASSUME NEW c, NEW k, NEW n, PumpOK(c, k, n), k.state = "pump_active", NEW d \in Directions,
           k.pipe[d] # <<>>
    PROVE  PumpOK(c, SpliceFull([Touched(k) EXCEPT !.active = @ \ {Ev(Src(d), "R")}], d), n)
<1> DEFINE ev == Ev(Src(d), "R")
           j == [Touched(k) EXCEPT !.active = @ \ {ev}]
           t == SpliceFull(j, d)
<1>0. FALSE \in BOOLEAN
  BY Zenon
<1>1. j \in Client
  BY <1>0 DEF PumpOK, Client, Touched
<1>2. /\ j.out = k.out /\ j.input = k.input /\ j.pipe = k.pipe /\ j.shut = k.shut /\ j.state = k.state
      /\ j.on = k.on /\ j.active = k.active \ {ev}
  BY DEF PumpOK, Client, Touched
<1> HIDE DEF j
<1>3. t \in Client
  BY <1>1 DEF Client, SpliceFull, Del
<1>4. /\ t.out = k.out /\ t.input = k.input /\ t.pipe = k.pipe /\ t.shut = k.shut /\ t.state = k.state
      /\ t.on = k.on \ {ev} /\ t.active = k.active \ {ev}
  BY <1>1, <1>2 DEF Client, SpliceFull, Del
<1> HIDE DEF t, ev
<1>5. Pending(k, d) # <<>>
  <2>1. k.pipe[d] \in Seq(Nat) /\ k.input \in Seq(Nat) /\ <<>> \in Seq(Nat)
    BY EmptySeq DEF PumpOK, Client
  <2>2. ASSUME NEW i \in Seq(Nat) PROVE i \o k.pipe[d] # <<>>
    BY <2>1, ConcatEqualIffEmpty
  <2>3. QED
    BY <2>1, <2>2 DEF Pending
<1>6. \A e \in Directions : WaitsFor(k, e)
  BY DEF PumpOK, EventsOK
<1>7. \A e \in Directions : Pending(t, e) = Pending(k, e)
  BY <1>4 DEF Pending
<1>8. WaitsFor(t, d)
  BY <1>4, <1>5, <1>6, Opposite DEF WaitsFor, ev
<1>9. ASSUME NEW e \in Directions \ {d} PROVE WaitsFor(t, e)
  BY <1>4, <1>6, <1>7, EventsApart DEF WaitsFor, ev
<1>10. EventsOK(t)
  BY <1>8, <1>9 DEF EventsOK
<1>11. PumpOK(c, t, n)
  BY <1>3, <1>4, <1>10, OthersOK DEF Negotiation
<1>12. QED
  BY <1>11 DEF t, j, ev

\* Of the two directions, the bytes of one change.
LEMMA OtherBytes ==
    ASSUME NEW k \in Client, NEW t \in Client, NEW d \in Directions, NEW e \in Directions \ {d},
           t.out[e] = k.out[e], t.pipe[e] = k.pipe[e], d = "reply" => t.input = k.input
    PROVE  Pending(t, e) = Pending(k, e)
BY DEF Pending, Directions

\* redsplice_read_cb: the source's bytes go to the pipe.
LEMMA SpliceOK ==
    ASSUME NEW c, NEW k, NEW n, PumpOK(c, k, n), k.state = "pump_active", NEW d \in Directions,
           NEW m \in 1 .. n[Src(d)].pos - n[Src(d)].read
    PROVE  PumpOK(c, [[Touched(k) EXCEPT !.active = @ \ {Ev(Src(d), "R")}]
                         EXCEPT !.pipe[d] = @ \o After(n[Src(d)].read, m),
                                !.active = @ \cup {Ev(Dst(d), "W")}],
                     [n EXCEPT ![Src(d)].read = @ + m])
<1> DEFINE src == Src(d)
           ev == Ev(Src(d), "R")
           evdst == Ev(Dst(d), "W")
           r == n[src].read
           p == k.pipe[d] \o After(r, m)
           j == [Touched(k) EXCEPT !.active = @ \ {ev}]
           t == [j EXCEPT !.pipe[d] = p, !.active = @ \cup {evdst}]
           v == [n EXCEPT ![src].read = @ + m]
           i == IF d = "request" THEN k.input ELSE <<>>
<1>0. FALSE \in BOOLEAN /\ src \in Ends /\ evdst \in Events
  BY Opposite, Zenon
<1>1. r \in Nat /\ m \in Nat /\ m >= 1 /\ r + m <= n[src].pos /\ n[src].pos \in Nat
  BY <1>0 DEF PumpOK, SocketsOK, Socket
<1>2. k.out[d] \in Seq(Nat) /\ i \in Seq(Nat) /\ k.pipe[d] \in Seq(Nat)
  BY EmptySeq DEF PumpOK, Client
<1>3. k.out[d] \o (i \o k.pipe[d]) = First(r)
  BY DEF PumpOK, BytesOK, Pending
<1>4. p \in Seq(Nat) /\ k.out[d] \o (i \o p) = First(r + m)
  <2> DEFINE o == k.out[d]
             q == k.pipe[d]
  <2>1. o \in Seq(Nat) /\ i \in Seq(Nat) /\ q \in Seq(Nat) /\ o \o (i \o q) = First(r) /\ r \in Nat /\ m \in Nat
    BY <1>1, <1>2, <1>3
  <2> HIDE DEF i, r, o, q
  <2>2. After(r, m) \in Seq(Nat) /\ First(r) \o After(r, m) = First(r + m)
    BY <1>1, AfterIsSeq, FirstExtended
  <2>3. q \o After(r, m) \in Seq(Nat) /\ o \o (i \o (q \o After(r, m))) = (o \o (i \o q)) \o After(r, m)
    <3> DEFINE a == After(r, m)
    <3>1. a \in Seq(Nat) /\ o \in Seq(Nat) /\ i \in Seq(Nat) /\ q \in Seq(Nat)
      BY <2>1, <2>2
    <3> HIDE DEF a
    <3>2. o \o (i \o (q \o a)) = (o \o (i \o q)) \o a
      <4> DEFINE h == i \o q
      <4>1. h \in Seq(Nat)
        BY <3>1, ConcatProperties
      <4>2. h \o a = i \o (q \o a)
        BY <3>1, ConcatInTurn, Zenon
      <4> HIDE DEF h
      <4>3. (o \o h) \o a = o \o (h \o a)
        BY <3>1, <4>1, ConcatInTurn, ZenonT(30)
      <4>4. QED
        BY <4>2, <4>3 DEF h
    <3>3. q \o a \in Seq(Nat)
      BY <3>1, ConcatProperties
    <3>4. QED
      BY <3>2, <3>3 DEF a
  <2>4. QED
    BY <2>1, <2>2, <2>3 DEF o, q
<1> HIDE DEF src
<1>5. v \in [Ends -> Socket]
  BY <1>0, <1>1 DEF PumpOK, SocketsOK, Socket
<1>6. /\ v[src].read = r + m /\ v[src].pos = n[src].pos /\ v[src].fin = n[src].fin
      /\ \A x \in Ends \ {src} : v[x] = n[x]
  BY <1>0, <1>1 DEF PumpOK, SocketsOK, Socket
<1> HIDE DEF p, v, r, ev, evdst
<1>7. j \in Client
  BY <1>0 DEF PumpOK, Client, Touched
<1>8. /\ j.out = k.out /\ j.input = k.input /\ j.pipe = k.pipe /\ j.shut = k.shut /\ j.state = k.state
      /\ j.on = k.on /\ j.active = k.active \ {ev}
  BY DEF PumpOK, Client, Touched
<1> HIDE DEF j
<1>9. t \in Client
  BY <1>0, <1>4, <1>7 DEF Client
<1>10. /\ t.out = k.out /\ t.input = k.input /\ t.pipe = [k.pipe EXCEPT ![d] = p] /\ t.shut = k.shut
       /\ t.state = k.state /\ t.on = k.on /\ t.active = (k.active \ {ev}) \cup {evdst}
  BY <1>7, <1>8 DEF Client
<1> HIDE DEF t
<1>11. t.pipe[d] = p /\ \A e \in Directions \ {d} : t.pipe[e] = k.pipe[e]
  BY <1>10 DEF PumpOK, Client
<1>12. \A e \in Directions \ {d} : Pending(t, e) = Pending(k, e)
  <2>1. k \in Client
    BY DEF PumpOK
  <2>2. ASSUME NEW e \in Directions \ {d} PROVE Pending(t, e) = Pending(k, e)
    BY <1>9, <1>10, <1>11, <2>1, OtherBytes
  <2>3. QED
    BY <2>2
<1>13. SocketsOK(c, v)
  BY <1>1, <1>5, <1>6 DEF PumpOK, SocketsOK, r
<1>14. StageOK(t, v)
  BY <1>10 DEF StageOK, Negotiation
<1>15. BytesOK(t, v)
  <2>1. t.out[d] \o Pending(t, d) = First(v[Src(d)].read)
    BY <1>4, <1>6, <1>10, <1>11 DEF Pending, src, i
  <2>2. ASSUME NEW e \in Directions \ {d} PROVE t.out[e] \o Pending(t, e) = First(v[Src(e)].read)
    <3>1. Src(e) \in Ends \ {src}
      BY EventsApart DEF src
    <3>2. QED
      BY <1>6, <1>10, <1>12, <3>1 DEF PumpOK, BytesOK
  <2>3. QED
    BY <2>1, <2>2 DEF BytesOK
<1>16. EndsOK(t, v)
  <2>1. \A s \in Ends : v[s].fin = n[s].fin /\ v[s].pos = n[s].pos /\ (s # src => v[s].read = n[s].read)
    BY <1>6
  <2>2. "R" \notin k.shut[src]
    BY <1>0, <1>1 DEF PumpOK, EndsOK, r
  <2>3. QED
    BY <1>10, <2>1, <2>2, Opposite DEF PumpOK, EndsOK
<1>17. EventsOK(t)
  <2>1. WaitsFor(t, d)
    BY <1>10 DEF WaitsFor, evdst
  <2>2. ASSUME NEW e \in Directions \ {d} PROVE WaitsFor(t, e)
    <3>1. WaitsFor(k, e)
      BY DEF PumpOK, EventsOK
    <3>2. QED
      BY <1>10, <1>12, <3>1, EventsApart DEF WaitsFor, ev
  <2>3. QED
    BY <2>1, <2>2 DEF EventsOK
<1>18. PumpOK(c, t, v)
  BY <1>9, <1>13, <1>14, <1>15, <1>16, <1>17 DEF PumpOK
<1>19. t = [j EXCEPT !.pipe[d] = @ \o After(r, m), !.active = @ \cup {evdst}]
  BY <1>8 DEF t, p
<1>20. QED
  BY <1>18, <1>19 DEF v, j, r, ev, evdst, src

\* redsplice_read_cb at the end of the source's stream
LEMMA EofOK ==
    ASSUME NEW c, NEW k, NEW n, PumpOK(c, k, n), k.state = "pump_active", NEW d \in Directions,
           n[Src(d)].fin, n[Src(d)].pos = n[Src(d)].read
    PROVE  PumpOK(c, [Del([Touched(k) EXCEPT !.active = @ \ {Ev(Src(d), "R")}], {Ev(Src(d), "R")})
                         EXCEPT !.shut[Src(d)] = @ \cup {"R"}, !.active = @ \cup {Ev(Dst(d), "W")}], n)
<1> DEFINE src == Src(d)
           ev == Ev(Src(d), "R")
           evdst == Ev(Dst(d), "W")
           j == [Touched(k) EXCEPT !.active = @ \ {ev}]
           l == Del(j, {ev})
           t == [l EXCEPT !.shut[src] = @ \cup {"R"}, !.active = @ \cup {evdst}]
<1>0. FALSE \in BOOLEAN /\ src \in Ends /\ evdst \in Events
  BY Opposite, Zenon
<1> HIDE DEF src, ev, evdst
<1>1. j \in Client
  BY <1>0 DEF PumpOK, Client, Touched
<1>2. /\ j.out = k.out /\ j.input = k.input /\ j.pipe = k.pipe /\ j.shut = k.shut /\ j.state = k.state
      /\ j.on = k.on /\ j.active = k.active \ {ev}
  BY DEF PumpOK, Client, Touched
<1> HIDE DEF j
<1>3. l \in Client
  BY <1>1 DEF Client, Del
<1>4. /\ l.out = k.out /\ l.input = k.input /\ l.pipe = k.pipe /\ l.shut = k.shut /\ l.state = k.state
      /\ l.on = k.on \ {ev} /\ l.active = k.active \ {ev}
  BY <1>1, <1>2 DEF Client, Del
<1> HIDE DEF l
<1>5. k.shut[src] \cup {"R"} \subseteq {"R", "W"}
  BY <1>0 DEF PumpOK, Client
<1>6. t \in Client
  BY <1>0, <1>3, <1>4, <1>5 DEF Client
<1>7. /\ t.out = k.out /\ t.input = k.input /\ t.pipe = k.pipe /\ t.state = k.state
      /\ t.shut = [k.shut EXCEPT ![src] = @ \cup {"R"}]
      /\ t.on = k.on \ {ev} /\ t.active = (k.active \ {ev}) \cup {evdst}
  BY <1>3, <1>4 DEF Client
<1> HIDE DEF t
<1>8. \A x \in Ends : t.shut[x] = k.shut[x] \/ (x = src /\ t.shut[x] = k.shut[x] \cup {"R"})
  BY <1>7 DEF PumpOK, Client
<1>9. EndsOK(t, n)
  BY <1>7, <1>8, Opposite DEF PumpOK, EndsOK, src
<1>10. BytesOK(t, n)
  BY <1>7, BytesSame DEF PumpOK
<1>11. StageOK(t, n)
  BY <1>7 DEF StageOK, Negotiation
<1>12. EventsOK(t)
  <2>1. WaitsFor(t, d)
    BY <1>7 DEF WaitsFor, evdst
  <2>2. ASSUME NEW e \in Directions \ {d} PROVE WaitsFor(t, e)
    <3>1. WaitsFor(k, e) /\ Pending(t, e) = Pending(k, e)
      BY <1>7 DEF PumpOK, EventsOK, Pending
    <3>2. QED
      BY <1>7, <1>8, <3>1, EventsApart DEF WaitsFor, ev
  <2>3. QED
    BY <2>1, <2>2 DEF EventsOK
<1>13. PumpOK(c, t, n)
  BY <1>6, <1>9, <1>10, <1>11, <1>12 DEF PumpOK
<1>14. QED
  BY <1>13 DEF t, l, j, ev, evdst, src

\* What writing m bytes of direction d changes of k, evs being the events that
\* are not active any more.
Wrote(k, w, d, m, evs) ==
    /\ w \in Client
    /\ w.state = k.state /\ w.shut = k.shut /\ w.on = k.on /\ w.active = k.active \ evs
    /\ \A e \in Directions \ {d} : w.out[e] = k.out[e] /\ Pending(w, e) = Pending(k, e)
    /\ w.out[d] = k.out[d] \o SubSeq(Pending(k, d), 1, m)
    /\ w.out[d] \o Pending(w, d) = k.out[d] \o Pending(k, d)

\* m bytes of direction d are written.
LEMMA WrittenFields ==
    ASSUME NEW k \in Client, NEW d \in Directions, NEW m \in 0 .. Len(Pending(k, d)), NEW t, t = Written(k, d, m)
    PROVE  Wrote(k, t, d, m, {})
<1> DEFINE i == IF d = "request" THEN k.input ELSE <<>>
           p == k.pipe[d]
           o == k.out[d]
           b == IF d = "request" THEN Len(k.input) ELSE 0
           x == IF m > b THEN m - b ELSE 0
           o2 == o \o SubSeq(i \o p, 1, m)
           i2 == SubSeq(i, m + 1, Len(i))
           p2 == SubSeq(p, x + 1, Len(p))
<1>1. o \in Seq(Nat) /\ i \in Seq(Nat) /\ p \in Seq(Nat) /\ k.input \in Seq(Nat)
  BY EmptySeq DEF Client
<1>2. Len(i) = b /\ Pending(k, d) = i \o p
  BY EmptySeq DEF Pending
<1>3. o2 \in Seq(Nat) /\ i2 \in Seq(Nat) /\ p2 \in Seq(Nat) /\ o2 \o (i2 \o p2) = o \o (i \o p)
  <2>1. m \in 0 .. Len(i \o p) /\ x = IF m > Len(i) THEN m - Len(i) ELSE 0
    BY <1>2
  <2>2. o2 \o (i2 \o p2) = o \o (i \o p)
    <3> HIDE DEF o, i, p, b, x
    <3>1. o \in Seq(Nat) /\ i \in Seq(Nat) /\ p \in Seq(Nat)
      BY <1>1
    <3>2. Handed(o, i, p, m) \o (LeftIn(i, m) \o LeftOf(i, p, m)) = o \o (i \o p)
      BY <3>1, <2>1, WrittenAndLeft
    <3>3. QED
      BY <2>1, <3>2 DEF Handed, LeftIn, LeftOf
  <2>3. x \in Nat /\ m \in Nat
    BY <1>1, LenProperties
  <2>4. i2 \in Seq(Nat) /\ p2 \in Seq(Nat)
    <3> HIDE DEF o, i, p, b, x
    <3> QED  BY <1>1, <2>3, SuffixIsSeq
  <2>5. i \o p \in Seq(Nat)
    <3> HIDE DEF o, i, p, b, x
    <3> QED  BY <1>1, ConcatProperties
  <2>6. SubSeq(i \o p, 1, m) \in Seq(Nat)
    <3> DEFINE q == i \o p
    <3>1. q \in Seq(Nat) /\ m \in 0 .. Len(q)
      BY <2>1, <2>5
    <3> HIDE DEF q
    <3>2. SubSeq(q, 1, m) \in Seq(Nat)
      BY <3>1, PrefixIsSeq
    <3>3. QED
      BY <3>2 DEF q
  <2>7. o2 \in Seq(Nat)
    <3> DEFINE a == SubSeq(i \o p, 1, m)
    <3> HIDE DEF a, o
    <3>1. o \o a \in Seq(Nat)
      BY <1>1, <2>6, ConcatProperties DEF a
    <3>2. QED
      BY <3>1 DEF a
  <2>8. QED
    BY <2>2, <2>4, <2>7
<1> DEFINE u == [k EXCEPT !.out[d] = o2, !.pipe[d] = p2]
<1>4. u = [k EXCEPT !.out[d] = @ \o SubSeq(Pending(k, d), 1, m), !.pipe[d] = SubSeq(@, x + 1, Len(@))]
  BY <1>2
<1> HIDE DEF o2, p2, i2
<1>5. u \in Client
  BY <1>3 DEF Client
<1>6. /\ u.state = k.state /\ u.shut = k.shut /\ u.on = k.on /\ u.active = k.active /\ u.input = k.input
      /\ u.out = [k.out EXCEPT ![d] = o2] /\ u.pipe = [k.pipe EXCEPT ![d] = p2]
  BY DEF Client
<1>7. /\ u.out[d] = o2 /\ u.pipe[d] = p2
      /\ \A e \in Directions \ {d} : u.out[e] = k.out[e] /\ u.pipe[e] = k.pipe[e]
  BY <1>6 DEF Client
<1>8. t = IF d = "request" THEN [u EXCEPT !.input = SubSeq(@, m + 1, Len(@))] ELSE u
  BY <1>4 DEF Written
<1> HIDE DEF u
<1>9. /\ t \in Client
      /\ t.state = k.state /\ t.shut = k.shut /\ t.on = k.on /\ t.active = k.active
      /\ t.out = u.out /\ t.pipe = u.pipe
      /\ t.input = IF d = "request" THEN i2 ELSE k.input
  <2>1. CASE d = "request"
    <3>1. t = [u EXCEPT !.input = i2]
      BY <1>6, <1>8, <2>1 DEF i2
    <3>2. QED
      BY <1>3, <1>5, <1>6, <2>1, <3>1 DEF Client
  <2>2. CASE d # "request"
    BY <1>5, <1>6, <1>8, <2>2
  <2>3. QED
    BY <2>1, <2>2
<1>10. \A e \in Directions \ {d} : t.out[e] = k.out[e] /\ Pending(t, e) = Pending(k, e)
  <2>1. ASSUME NEW e \in Directions \ {d} PROVE t.out[e] = k.out[e] /\ Pending(t, e) = Pending(k, e)
    <3>1. t.out[e] = k.out[e] /\ t.pipe[e] = k.pipe[e] /\ (d = "reply" => t.input = k.input)
      BY <1>7, <1>9
    <3>2. QED
      BY <1>9, <3>1, OtherBytes
  <2>2. QED
    BY <2>1
<1>11. Pending(t, d) = i2 \o p2
  <2>1. d # "request" => i2 = <<>>
    <3>1. ASSUME d # "request" PROVE i2 = <<>>
      <4>1. i = <<>> /\ Len(i) = 0 /\ m \in Nat
        BY <1>2, <3>1, LenProperties, PendingIsSeq
      <4>2. QED
        BY <4>1, SubSeqEmpty DEF i2
    <3>2. QED
      BY <3>1
  <2>2. QED
    BY <1>7, <1>9, <2>1 DEF Pending
<1>12. QED
  BY <1>2, <1>3, <1>7, <1>9, <1>10, <1>11 DEF o2, Wrote

\* event_del
LEMMA DelFields ==
    ASSUME NEW k \in Client, NEW evs, NEW t, t = Del(k, evs)
    PROVE  /\ t \in Client
           /\ t.state = k.state /\ t.shut = k.shut /\ t.out = k.out /\ t.input = k.input /\ t.pipe = k.pipe
           /\ t.on = k.on \ evs /\ t.active = k.active \ evs
BY DEF Del, Client

\* The end of redsplice_write_cb.
LEMMA DecideFields ==
    ASSUME NEW k \in Client, NEW d \in Directions, NEW t, t = Decide(k, d)
    PROVE  /\ t \in Client
           /\ t.state = k.state /\ t.out = k.out /\ t.input = k.input /\ t.pipe = k.pipe
           /\ \A e \in Events : e # Ev(Src(d), "R") /\ e # Ev(Dst(d), "W")
                 => (e \in t.on <=> e \in k.on) /\ (e \in t.active <=> e \in k.active)
           /\ \/ DecideShut(k, d) /\ t.shut = [k.shut EXCEPT ![Dst(d)] = @ \cup {"W"}]
              \/ Pending(k, d) # <<>> /\ t.shut = k.shut /\ Ev(Dst(d), "W") \in t.on
              \/ Pending(k, d) = <<>> /\ t.shut = k.shut /\ Ev(Src(d), "R") \in t.on
<1> DEFINE evsrc == Ev(Src(d), "R")
           evdst == Ev(Dst(d), "W")
<1>0. evsrc \in Events /\ evdst \in Events /\ Dst(d) \in Ends
  BY Opposite
<1> HIDE DEF evsrc, evdst
<1>1. t = IF DecideShut(k, d) THEN Del([k EXCEPT !.shut[Dst(d)] = @ \cup {"W"}], {evsrc, evdst})
          ELSE IF Pending(k, d) # <<>> THEN [Del(k, {evsrc}) EXCEPT !.on = @ \cup {evdst}]
          ELSE [Del(k, {evdst}) EXCEPT !.on = @ \cup {evsrc}]
  BY DEF Decide, evsrc, evdst
<1> DEFINE Same == /\ t \in Client
                   /\ t.state = k.state /\ t.out = k.out /\ t.input = k.input /\ t.pipe = k.pipe
                   /\ \A e \in Events : e # evsrc /\ e # evdst
                         => (e \in t.on <=> e \in k.on) /\ (e \in t.active <=> e \in k.active)
<1>2. CASE DecideShut(k, d)
  <2> DEFINE u == [k EXCEPT !.shut[Dst(d)] = @ \cup {"W"}]
  <2>1. k.shut[Dst(d)] \cup {"W"} \subseteq {"R", "W"}
    BY <1>0 DEF Client
  <2>2. u \in Client
    BY <1>0, <2>1 DEF Client
  <2>3. /\ u.state = k.state /\ u.out = k.out /\ u.input = k.input /\ u.pipe = k.pipe /\ u.on = k.on
        /\ u.active = k.active /\ u.shut = [k.shut EXCEPT ![Dst(d)] = @ \cup {"W"}]
    BY DEF Client
  <2>4. t = Del(u, {evsrc, evdst})
    BY <1>1, <1>2
  <2> HIDE DEF u
  <2>5. /\ t \in Client
        /\ t.state = u.state /\ t.shut = u.shut /\ t.out = u.out /\ t.input = u.input /\ t.pipe = u.pipe
        /\ t.on = u.on \ {evsrc, evdst} /\ t.active = u.active \ {evsrc, evdst}
    BY <2>2, <2>4, DelFields
  <2>6. Same /\ t.shut = [k.shut EXCEPT ![Dst(d)] = @ \cup {"W"}]
    BY <2>3, <2>5
  <2>7. QED
    BY <1>2, <2>6 DEF evsrc, evdst
<1>3. CASE ~DecideShut(k, d) /\ Pending(k, d) # <<>>
  <2> DEFINE u == Del(k, {evsrc})
  <2>1. /\ u \in Client
        /\ u.state = k.state /\ u.shut = k.shut /\ u.out = k.out /\ u.input = k.input /\ u.pipe = k.pipe
        /\ u.on = k.on \ {evsrc} /\ u.active = k.active \ {evsrc}
    BY DelFields
  <2>2. t = [u EXCEPT !.on = @ \cup {evdst}]
    BY <1>1, <1>3
  <2> HIDE DEF u
  <2>3. /\ t \in Client
        /\ t.state = k.state /\ t.shut = k.shut /\ t.out = k.out /\ t.input = k.input /\ t.pipe = k.pipe
        /\ t.on = u.on \cup {evdst} /\ t.active = u.active
    BY <1>0, <2>1, <2>2, ZenonT(60) DEF Client
  <2>4. Same /\ t.shut = k.shut /\ evdst \in t.on
    BY <2>1, <2>3
  <2>5. QED
    BY <1>3, <2>4 DEF evsrc, evdst
<1>4. CASE ~DecideShut(k, d) /\ Pending(k, d) = <<>>
  <2> DEFINE u == Del(k, {evdst})
  <2>1. /\ u \in Client
        /\ u.state = k.state /\ u.shut = k.shut /\ u.out = k.out /\ u.input = k.input /\ u.pipe = k.pipe
        /\ u.on = k.on \ {evdst} /\ u.active = k.active \ {evdst}
    BY DelFields
  <2>2. t = [u EXCEPT !.on = @ \cup {evsrc}]
    BY <1>1, <1>4
  <2> HIDE DEF u
  <2>3. /\ t \in Client
        /\ t.state = k.state /\ t.shut = k.shut /\ t.out = k.out /\ t.input = k.input /\ t.pipe = k.pipe
        /\ t.on = u.on \cup {evsrc} /\ t.active = u.active
    BY <1>0, <2>1, <2>2, ZenonT(60) DEF Client
  <2>4. Same /\ t.shut = k.shut /\ evsrc \in t.on
    BY <2>1, <2>3
  <2>5. QED
    BY <1>4, <2>4 DEF evsrc, evdst
<1>5. QED
  BY <1>2, <1>3, <1>4

\* What redsplice_write_cb decides then.
Decided(w, t, d) ==
    /\ t \in Client
    /\ t.state = w.state /\ t.out = w.out /\ t.input = w.input /\ t.pipe = w.pipe
    /\ \A e \in Events : e # Ev(Src(d), "R") /\ e # Ev(Dst(d), "W")
          => (e \in t.on <=> e \in w.on) /\ (e \in t.active <=> e \in w.active)
    /\ \/ DecideShut(w, d) /\ t.shut = [w.shut EXCEPT ![Dst(d)] = @ \cup {"W"}]
       \/ Pending(w, d) # <<>> /\ t.shut = w.shut /\ Ev(Dst(d), "W") \in t.on
       \/ Pending(w, d) = <<>> /\ t.shut = w.shut /\ Ev(Src(d), "R") \in t.on

\* A write followed by its decision keeps the pump in order: the end of the
\* stream is relayed only when nothing waits and the source was read to its end.
LEMMA WrittenOK ==
    ASSUME NEW c, NEW k, NEW n, PumpOK(c, k, n), k.state = "pump_active", NEW d \in Directions,
           NEW m \in 0 .. Len(Pending(k, d)), NEW w, NEW t, Wrote(k, w, d, m, {Ev(Dst(d), "W")}), Decided(w, t, d)
    PROVE  PumpOK(c, t, n)
<1> USE DEF Wrote, Decided
<1>7. BytesOK(w, n)
  BY DEF PumpOK, BytesOK
<1>11. BytesOK(t, n)
  BY <1>7, BytesSame
<1>12. \A e \in Directions : Pending(t, e) = Pending(w, e)
  BY DEF Pending
<1>13. StageOK(t, n)
  BY DEF StageOK, Negotiation
<1>14. \A s \in Ends : t.shut[s] = k.shut[s] \/ (s = Dst(d) /\ DecideShut(w, d) /\ t.shut[s] = k.shut[s] \cup {"W"})
  BY DEF PumpOK, Client
<1>15. EventsOK(t)
  <2>1. WaitsFor(t, d)
    <3>1. DecideShut(w, d) /\ t.shut = [w.shut EXCEPT ![Dst(d)] = @ \cup {"W"}] => "W" \in t.shut[Dst(d)]
      BY Opposite DEF Client
    <3>2. QED
      BY <1>12, <3>1 DEF WaitsFor
  <2>2. ASSUME NEW e \in Directions \ {d} PROVE WaitsFor(t, e)
    <3>1. WaitsFor(k, e) /\ Pending(t, e) = Pending(k, e)
      BY <1>12 DEF PumpOK, EventsOK
    <3>2. /\ Ev(Dst(e), "W") \in t.on \cup t.active <=> Ev(Dst(e), "W") \in k.on \cup k.active
          /\ Ev(Src(e), "R") \in t.on <=> Ev(Src(e), "R") \in k.on
      BY EventsApart, Opposite
    <3>3. "W" \in k.shut[Dst(e)] => "W" \in t.shut[Dst(e)]
      BY <1>14, Opposite
    <3>4. QED
      BY <3>1, <3>2, <3>3 DEF WaitsFor
  <2>3. QED
    BY <2>1, <2>2 DEF EventsOK
<1>16. EndsOK(t, n)
  <2>1. \A s \in Ends : "R" \in t.shut[s] => n[s].fin /\ n[s].read = n[s].pos
    BY <1>14 DEF PumpOK, EndsOK
  <2>2. ASSUME NEW e \in Directions \ {d}, "W" \in t.shut[Dst(e)]
        PROVE  n[Src(e)].fin /\ Len(t.out[e]) = n[Src(e)].pos
    <3>1. "W" \in k.shut[Dst(e)]
      BY <1>14, <2>2, EventsApart
    <3>2. t.out[e] = k.out[e]
      OBVIOUS
    <3>3. QED
      BY <3>1, <3>2 DEF PumpOK, EndsOK
  <2>3. ASSUME "W" \in t.shut[Dst(d)]
        PROVE  n[Src(d)].fin /\ Len(t.out[d]) = n[Src(d)].pos
    <3>1. /\ n[Src(d)].read \in Nat /\ n[Src(d)].pos \in Nat /\ n[Src(d)].read <= n[Src(d)].pos
      BY Opposite DEF PumpOK, SocketsOK, Socket
    <3>2. Len(t.out[d]) + Len(Pending(t, d)) = n[Src(d)].read /\ Len(t.out[d]) \in Nat /\ Len(Pending(t, d)) \in Nat
      <4> DEFINE x == t.out[d]
                 y == Pending(t, d)
      <4>1. x \in Seq(Nat) /\ y \in Seq(Nat) /\ x \o y = First(n[Src(d)].read)
        BY <1>11, PendingIsSeq DEF BytesOK
      <4>2. Len(First(n[Src(d)].read)) = n[Src(d)].read
        BY <3>1, FirstIsSeq
      <4> HIDE DEF x, y
      <4>3. Len(x \o y) = Len(x) + Len(y) /\ Len(x) \in Nat /\ Len(y) \in Nat
        BY <4>1, ConcatProperties, LenProperties
      <4>4. QED
        BY <4>1, <4>2, <4>3 DEF x, y
    <3>3. CASE DecideShut(w, d)
      <4>1. Pending(t, d) = <<>> /\ "R" \in k.shut[Src(d)]
        BY <1>12, <3>3 DEF DecideShut
      <4>2. Len(Pending(t, d)) = 0
        BY <4>1
      <4>3. n[Src(d)].fin /\ n[Src(d)].read = n[Src(d)].pos
        BY <4>1, Opposite DEF PumpOK, EndsOK
      <4>4. QED
        BY <3>1, <3>2, <4>2, <4>3
    <3>4. CASE "W" \in k.shut[Dst(d)]
      <4>1. n[Src(d)].fin /\ Len(k.out[d]) = n[Src(d)].pos
        BY <3>4 DEF PumpOK, EndsOK
      <4>2. Len(k.out[d]) + Len(Pending(k, d)) = n[Src(d)].read /\ Len(k.out[d]) \in Nat /\ Len(Pending(k, d)) \in Nat
        <5> DEFINE x == k.out[d]
                   y == Pending(k, d)
        <5>1. x \in Seq(Nat) /\ y \in Seq(Nat) /\ x \o y = First(n[Src(d)].read)
          BY PendingIsSeq DEF BytesOK, PumpOK
        <5>2. Len(First(n[Src(d)].read)) = n[Src(d)].read
          BY <3>1, FirstIsSeq
        <5> HIDE DEF x, y
        <5>3. Len(x \o y) = Len(x) + Len(y) /\ Len(x) \in Nat /\ Len(y) \in Nat
          BY <5>1, ConcatProperties, LenProperties
        <5>4. QED
          BY <5>1, <5>2, <5>3 DEF x, y
      <4>3. m = 0
        BY <3>1, <4>1, <4>2
      <4>4. t.out[d] = k.out[d]
        <5> DEFINE x == k.out[d]
                   y == SubSeq(Pending(k, d), 1, m)
        <5>1. x \in Seq(Nat) /\ y = <<>>
          BY <4>3, SubSeqEmpty, PendingIsSeq DEF PumpOK
        <5> HIDE DEF x, y
        <5>2. x \o y = x
          BY <5>1, ConcatEmptySeq
        <5>3. QED
          BY <5>2 DEF x, y
      <4>5. QED
        BY <4>1, <4>4
    <3>5. QED
      BY <1>14, <2>3, <3>3, <3>4, Opposite
  <2>4. QED
    BY <2>1, <2>2, <2>3 DEF EndsOK
<1>17. QED
  BY <1>11, <1>13, <1>15, <1>16 DEF PumpOK

\* redsplice_write_cb
LEMMA WriteOK ==
    ASSUME NEW c, NEW k, NEW n, PumpOK(c, k, n), k.state = "pump_active", NEW d \in Directions,
           NEW m \in 0 .. Len(Pending([Touched(k) EXCEPT !.active = @ \ {Ev(Dst(d), "W")}], d))
    PROVE  PumpOK(c, Decide(Written([Touched(k) EXCEPT !.active = @ \ {Ev(Dst(d), "W")}], d, m), d), n)
<1> DEFINE j == [Touched(k) EXCEPT !.active = @ \ {Ev(Dst(d), "W")}]
           w == Written(j, d, m)
           t == Decide(w, d)
<1>0. FALSE \in BOOLEAN
  BY Zenon
<1>1. /\ j \in Client
      /\ j.out = k.out /\ j.input = k.input /\ j.pipe = k.pipe /\ j.shut = k.shut /\ j.state = k.state
      /\ j.on = k.on /\ j.active = k.active \ {Ev(Dst(d), "W")}
  BY <1>0 DEF PumpOK, Client, Touched
<1>2. m \in 0 .. Len(Pending(j, d))
  OBVIOUS
<1> HIDE DEF j
<1>3. \A e \in Directions : Pending(j, e) = Pending(k, e)
  BY <1>1 DEF Pending
<1>4. w = Written(j, d, m)
  OBVIOUS
<1> HIDE DEF w
<1>5. Wrote(j, w, d, m, {})
  BY <1>1, <1>2, <1>4, WrittenFields
<1>6. Wrote(k, w, d, m, {Ev(Dst(d), "W")}) /\ w \in Client
  BY <1>1, <1>3, <1>5 DEF Wrote
<1>7. Decided(w, t, d)
  BY <1>6, DecideFields DEF Decided
<1> HIDE DEF t
<1>8. m \in 0 .. Len(Pending(k, d))
  BY <1>2, <1>3
<1>9. PumpOK(c, t, n)
  BY <1>6, <1>7, <1>8, WrittenOK
<1>10. QED
  BY <1>9 DEF t, w, j

\* A step of one client and its sockets.
LEMMA OneClient ==
    ASSUME PumpsOK, NEW c \in Clients, NEW k, NEW v, PumpOK(c, k, v),
           cl' = [cl EXCEPT ![c] = k], net' = [net EXCEPT ![c] = v]
    PROVE  PumpsOK'
<1>1. k \in Client /\ v \in [Ends -> Socket]
  BY DEF PumpOK, SocketsOK
<1>2. cl' \in [Clients -> Client] /\ net' \in [Clients -> [Ends -> Socket]]
  BY <1>1 DEF PumpsOK
<1>3. ASSUME NEW x \in Clients PROVE PumpOK(x, cl'[x], net'[x])
  <2>1. CASE x = c
    BY <2>1 DEF PumpsOK
  <2>2. CASE x # c
    BY <2>2 DEF PumpsOK
  <2>3. QED
    BY <2>1, <2>2
<1>4. QED
  BY <1>2, <1>3 DEF PumpsOK

\* Clients are accepted or dropped.
LEMMA ClientsComeAndGo ==
    ASSUME PumpsOK, SocketsClosed, cl' = [c \in Clients |-> cl'[c]],
           \A c \in Clients : \/ cl'[c] = cl[c] \/ cl'[c] = Free
                              \/ cl'[c] = Accepted /\ cl[c].state = "free"
    PROVE  PumpsOK'
<1>1. ASSUME NEW c \in Clients PROVE PumpOK(c, cl'[c], net'[c])
  <2>1. net'[c] = IF cl'[c].state = "free" THEN Quiet ELSE net[c]
    BY DEF SocketsClosed
  <2>2. PumpOK(c, cl[c], net[c]) /\ (cl[c].state = "free" => net[c] = Quiet)
    BY DEF PumpsOK, PumpOK, StageOK
  <2>3. CASE cl'[c] = cl[c]
    BY <2>1, <2>2, <2>3
  <2>4. CASE cl'[c] = Free
    <3>1. net'[c] = Quiet
      BY <2>1, <2>4 DEF Free
    <3>2. QED
      BY <2>4, <3>1, FreeOK
  <2>5. CASE cl'[c] = Accepted /\ cl[c].state = "free"
    <3>1. net'[c] = Quiet
      BY <2>1, <2>2, <2>5
    <3>2. QED
      BY <2>5, <3>1, AcceptedOK
  <2>6. QED
    BY <2>3, <2>4, <2>5
<1>2. \A c \in Clients : cl'[c] \in Client /\ net'[c] \in [Ends -> Socket]
  BY <1>1 DEF PumpOK, SocketsOK
<1>3. cl' \in [Clients -> Client] /\ net' \in [Clients -> [Ends -> Socket]]
  BY <1>2 DEF SocketsClosed
<1>4. QED
  BY <1>1, <1>3 DEF PumpsOK

\* A callback of c that ends in redsocks_drop_client.
LEMMA DropOK ==
    ASSUME PumpsOK, NEW c \in Clients, redsocks_drop_client(c), SocketsClosed
    PROVE  PumpsOK'
<1>1. cl' = [cl EXCEPT ![c] = Free]
  BY DEF redsocks_drop_client, Becomes
<1>2. cl' = [x \in Clients |-> cl'[x]] /\ \A x \in Clients : cl'[x] = cl[x] \/ cl'[x] = Free
  BY <1>1 DEF PumpsOK
<1>3. QED
  BY <1>2, ClientsComeAndGo

\* A callback of c that goes on with k.
LEMMA GoOnOK ==
    ASSUME PumpsOK, NEW c \in Clients, NEW k, Becomes(c, k), SocketsClosed, PumpOK(c, k, net[c]), k.state # "free"
    PROVE  PumpsOK'
<1>1. cl' = [cl EXCEPT ![c] = k]
  BY DEF Becomes
<1>2. \A x \in Clients : cl'[x] = IF x = c THEN k ELSE cl[x]
  BY <1>1 DEF PumpsOK
<1>3. ASSUME NEW x \in Clients PROVE net'[x] = net[x]
  <2>1. net'[x] = IF cl'[x].state = "free" THEN Quiet ELSE net[x]
    BY DEF SocketsClosed
  <2>2. cl[x].state = "free" => net[x] = Quiet
    BY DEF PumpsOK, PumpOK, StageOK
  <2>3. QED
    BY <1>2, <2>1, <2>2
<1>4. net' = [x \in Clients |-> net'[x]] /\ net = [x \in Clients |-> net[x]]
  BY DEF SocketsClosed, PumpsOK
<1>5. net' = net
  BY <1>3, <1>4
<1>6. net' = [net EXCEPT ![c] = net[c]]
  BY <1>4, <1>5
<1>7. QED
  BY <1>1, <1>6, OneClient

\* The negotiation.
LEMMA NegotiationStep ==
    ASSUME PumpsOK, NEW c \in Clients, redsocks_relay_connected(c) \/ socks5_read_cb(c)
    PROVE  PumpsOK'
<1>1. cl[c].state \in Negotiation /\ SocketsClosed /\ PumpOK(c, cl[c], net[c])
  BY DEF redsocks_relay_connected, socks5_read_cb, Negotiation, PumpsOK
<1>2. CASE redsocks_drop_client(c)
  BY <1>1, <1>2, DropOK
<1>3. ASSUME NEW state \in Negotiation, Next5(c, state) PROVE PumpsOK'
  <2> DEFINE k == [Touched(cl[c]) EXCEPT !.state = state]
  <2>1. PumpOK(c, k, net[c])
    BY <1>1, NegotiateOK
  <2>2. k.state # "free"
    BY <1>1 DEF PumpOK, Client, Touched, Negotiation
  <2>3. Becomes(c, k)
    BY <1>3 DEF Next5
  <2> HIDE DEF k
  <2>4. QED
    BY <1>1, <2>1, <2>2, <2>3, GoOnOK
<1>4. CASE redsocks_start_relay(c)
  <2> DEFINE k == [Touched(cl[c]) EXCEPT !.state = "pump_active", !.on = {Ev(s, "R") : s \in Ends},
                                         !.active = {Ev(s, "W") : s \in Ends}]
  <2>1. PumpOK(c, k, net[c])
    BY <1>1, StartOK
  <2>2. k.state # "free"
    BY <1>1 DEF PumpOK, Client, Touched
  <2>3. Becomes(c, k) \/ redsocks_drop_client(c)
    BY <1>4 DEF redsocks_start_relay
  <2> HIDE DEF k
  <2>4. QED
    BY <1>1, <1>2, <2>1, <2>2, <2>3, GoOnOK
<1>5. \/ redsocks_drop_client(c) \/ redsocks_start_relay(c)
      \/ \E state \in Negotiation : Next5(c, state)
  BY DEF redsocks_relay_connected, socks5_read_cb, Negotiation
<1>6. QED
  BY <1>2, <1>3, <1>4, <1>5

\* The client is read into its buffer.
LEMMA BufferStep ==
    ASSUME PumpsOK, NEW c \in Clients, ClientBuffers(c)
    PROVE  PumpsOK'
<1>1. cl[c].state \in Negotiation /\ PumpOK(c, cl[c], net[c])
  BY DEF ClientBuffers, PumpsOK
<1>2. PICK m \in 1 .. Unread(c, "client") :
          /\ Becomes(c, [cl[c] EXCEPT !.input = @ \o Chunk(c, "client", m)])
          /\ net' = [net EXCEPT ![c]["client"].read = @ + m]
  BY DEF ClientBuffers
<1> DEFINE k == [cl[c] EXCEPT !.input = @ \o After(net[c]["client"].read, m)]
           v == [net[c] EXCEPT !["client"].read = @ + m]
<1>3. Chunk(c, "client", m) = After(net[c]["client"].read, m)
  BY DEF Chunk, After
<1>4. cl' = [cl EXCEPT ![c] = k]
  <2>1. cl' = [cl EXCEPT ![c] = [cl[c] EXCEPT !.input = @ \o Chunk(c, "client", m)]]
    BY <1>2 DEF Becomes
  <2>2. QED
    BY <1>3, <2>1
<1>5. net' = [net EXCEPT ![c] = v]
  BY <1>2
<1>6. PumpOK(c, k, v)
  BY <1>1, <1>2, BufferOK DEF Unread
<1> HIDE DEF k, v
<1>7. QED
  BY <1>4, <1>5, <1>6, OneClient

\* The sockets are left alone.
LEMMA SameSockets ==
    ASSUME PumpsOK, NEW c \in Clients, NEW k, PumpOK(c, k, net[c]), cl' = [cl EXCEPT ![c] = k], UNCHANGED net
    PROVE  PumpsOK'
<1>1. net' = [net EXCEPT ![c] = net[c]]
  BY DEF PumpsOK
<1>2. QED
  BY <1>1, OneClient

\* EOF in the negotiation.
LEMMA ErrorStep ==
    ASSUME PumpsOK, NEW c \in Clients, NEW s \in Ends, redsocks_event_error(c, s)
    PROVE  PumpsOK'
<1> DEFINE k == [Touched(cl[c]) EXCEPT !.shut[s] = @ \cup {"R"}]
<1>1. /\ cl[c].state \in Negotiation /\ PumpOK(c, cl[c], net[c])
      /\ net[c][s].fin /\ Unread(c, s) = 0 /\ UNCHANGED net
  BY DEF redsocks_event_error, PumpsOK
<1>2. cl' = [cl EXCEPT ![c] = k]
  BY DEF redsocks_event_error
<1>3. net[c][s].pos = net[c][s].read
  BY <1>1 DEF Unread, PumpOK, SocketsOK, Socket
<1>4. PumpOK(c, k, net[c])
  BY <1>1, <1>3, ErrorOK
<1> HIDE DEF k
<1>5. QED
  BY <1>1, <1>2, <1>4, SameSockets

\* redsplice_read_cb
LEMMA ReadStep ==
    ASSUME PumpsOK, NEW c \in Clients, NEW d \in Directions, redsplice_read_cb(c, d)
    PROVE  PumpsOK'
<1> DEFINE j == [Touched(cl[c]) EXCEPT !.active = @ \ {Ev(Src(d), "R")}]
<1>1. cl[c].state = "pump_active" /\ PumpOK(c, cl[c], net[c]) /\ j.pipe = cl[c].pipe
  BY DEF redsplice_read_cb, PumpsOK, PumpOK, Client, Touched
<1>2. CASE j.pipe[d] # <<>> /\ Becomes(c, SpliceFull(j, d)) /\ UNCHANGED net
  <2> DEFINE k == SpliceFull(j, d)
  <2>1. PumpOK(c, k, net[c])
    BY <1>1, <1>2, FullOK
  <2>2. cl' = [cl EXCEPT ![c] = k]
    BY <1>2 DEF Becomes
  <2> HIDE DEF k
  <2>3. QED
    BY <1>2, <2>1, <2>2, SameSockets
<1>3. ASSUME NEW m \in 1 .. Unread(c, Src(d)),
             Becomes(c, [j EXCEPT !.pipe[d] = @ \o Chunk(c, Src(d), m), !.active = @ \cup {Ev(Dst(d), "W")}]),
             net' = [net EXCEPT ![c][Src(d)].read = @ + m]
      PROVE  PumpsOK'
  <2> DEFINE k == [j EXCEPT !.pipe[d] = @ \o After(net[c][Src(d)].read, m), !.active = @ \cup {Ev(Dst(d), "W")}]
             v == [net[c] EXCEPT ![Src(d)].read = @ + m]
  <2>1. Chunk(c, Src(d), m) = After(net[c][Src(d)].read, m)
    BY DEF Chunk, After
  <2>2. cl' = [cl EXCEPT ![c] = k]
    BY <1>3, <2>1 DEF Becomes
  <2>3. net' = [net EXCEPT ![c] = v]
    BY <1>3
  <2>4. PumpOK(c, k, v)
    BY <1>1, <1>3, SpliceOK DEF Unread
  <2> HIDE DEF k, v
  <2>5. QED
    BY <2>2, <2>3, <2>4, OneClient
<1>4. CASE /\ Unread(c, Src(d)) = 0 /\ net[c][Src(d)].fin
           /\ cl' = [cl EXCEPT ![c] = [Del(j, {Ev(Src(d), "R")}) EXCEPT !.shut[Src(d)] = @ \cup {"R"},
                                                                     !.active = @ \cup {Ev(Dst(d), "W")}]]
           /\ UNCHANGED net
  <2> DEFINE k == [Del(j, {Ev(Src(d), "R")}) EXCEPT !.shut[Src(d)] = @ \cup {"R"},
                                                    !.active = @ \cup {Ev(Dst(d), "W")}]
  <2>1. net[c][Src(d)].pos = net[c][Src(d)].read
    BY <1>1, <1>4, Opposite DEF Unread, PumpOK, SocketsOK, Socket
  <2>2. PumpOK(c, k, net[c])
    BY <1>1, <1>4, <2>1, EofOK
  <2>3. cl' = [cl EXCEPT ![c] = k] /\ UNCHANGED net
    BY <1>4
  <2> HIDE DEF k
  <2>4. QED
    BY <2>2, <2>3, SameSockets
<1>5. QED
  BY <1>2, <1>3, <1>4 DEF redsplice_read_cb

\* redsplice_write_cb
LEMMA WriteStep ==
    ASSUME PumpsOK, NEW c \in Clients, NEW d \in Directions, redsplice_write_cb(c, d)
    PROVE  PumpsOK'
<1> DEFINE j == [Touched(cl[c]) EXCEPT !.active = @ \ {Ev(Dst(d), "W")}]
<1>1. cl[c].state = "pump_active" /\ PumpOK(c, cl[c], net[c]) /\ SocketsClosed
  BY DEF redsplice_write_cb, PumpsOK
<1>2. CASE redsocks_drop_client(c)
  BY <1>1, <1>2, DropOK
<1>3. ASSUME NEW m \in 0 .. Len(Pending(j, d)), Becomes(c, Decide(Written(j, d, m), d))
      PROVE  PumpsOK'
  <2> DEFINE k == Decide(Written(j, d, m), d)
  <2>1. PumpOK(c, k, net[c])
    BY <1>1, WriteOK
  <2>2. k.state # "free"
    <3>1. j \in Client /\ j.state = "pump_active"
      <4>1. FALSE \in BOOLEAN
        BY Zenon
      <4>2. QED
        BY <1>1, <4>1 DEF PumpOK, Client, Touched
    <3> HIDE DEF j
    <3> DEFINE w == Written(j, d, m)
    <3>2. w = Written(j, d, m)
      OBVIOUS
    <3> HIDE DEF w
    <3>3. Wrote(j, w, d, m, {})
      BY <3>1, <3>2, WrittenFields
    <3>4. w \in Client /\ w.state = "pump_active"
      BY <3>1, <3>3 DEF Wrote
    <3>5. k = Decide(w, d)
      BY <3>2
    <3> HIDE DEF k
    <3>6. QED
      BY <3>4, <3>5, DecideFields
  <2>3. Becomes(c, k)
    BY <1>3
  <2> HIDE DEF k
  <2>4. QED
    BY <1>1, <2>1, <2>2, <2>3, GoOnOK
<1>4. QED
  BY <1>2, <1>3 DEF redsplice_write_cb

\* An end sends, or ends its stream.
LEMMA SendStep ==
    ASSUME PumpsOK, NEW c \in Clients, NEW s \in Ends, Write(c, s) \/ End(c, s)
    PROVE  PumpsOK'
<1>1. /\ PumpOK(c, cl[c], net[c]) /\ cl[c].state # "free" /\ ~net[c][s].fin /\ UNCHANGED cl
      /\ net[c] \in [Ends -> Socket] /\ net[c][s].pos <= Bytes(c, s)
  BY DEF Write, End, PumpsOK, PumpOK, SocketsOK
<1>2. cl' = [cl EXCEPT ![c] = cl[c]]
  BY <1>1 DEF PumpsOK
<1>3. CASE Write(c, s)
  <2> DEFINE v == [net[c] EXCEPT ![s].pos = @ + 1]
  <2>1. net' = [net EXCEPT ![c] = v]
    BY <1>3 DEF Write
  <2>2. Bytes(c, s) \in Nat /\ net[c][s].pos < Bytes(c, s) /\ net[c][s].pos \in Nat
    BY <1>1, <1>3, RedsocksAssumption DEF Write, Bytes, Socket
  <2>3. /\ v \in [Ends -> Socket] /\ \A x \in Ends \ {s} : v[x] = net[c][x]
        /\ v[s].read = net[c][s].read /\ v[s].pos = net[c][s].pos + 1
    BY <1>1 DEF Socket
  <2> HIDE DEF v
  <2>4. v[s].pos >= net[c][s].pos /\ v[s].pos <= Bytes(c, s)
    BY <2>2, <2>3
  <2>5. PumpOK(c, cl[c], v)
    BY <1>1, <2>3, <2>4, SentOK
  <2>6. QED
    BY <1>2, <2>1, <2>5, OneClient
<1>4. CASE End(c, s)
  <2> DEFINE v == [net[c] EXCEPT ![s].fin = TRUE]
  <2>1. net' = [net EXCEPT ![c] = v]
    BY <1>4 DEF End
  <2>2. TRUE \in BOOLEAN
    BY Zenon
  <2>3. /\ v \in [Ends -> Socket] /\ \A x \in Ends \ {s} : v[x] = net[c][x]
        /\ v[s].read = net[c][s].read /\ v[s].pos = net[c][s].pos
    BY <1>1, <2>2 DEF Socket
  <2>4. net[c][s].pos \in Nat
    BY <1>1 DEF Socket
  <2> HIDE DEF v
  <2>5. v[s].pos >= net[c][s].pos /\ v[s].pos <= Bytes(c, s)
    BY <1>1, <2>3, <2>4
  <2>6. PumpOK(c, cl[c], v)
    BY <1>1, <2>3, <2>5, SentOK
  <2>7. QED
    BY <1>2, <2>1, <2>6, OneClient
<1>5. QED
  BY <1>3, <1>4

\* Time passes without anything happening to c.
LEMMA RestStep ==
    ASSUME PumpsOK, NEW c \in Clients, Rest(c)
    PROVE  PumpsOK'
<1> DEFINE k == [cl[c] EXCEPT !.old = TRUE]
<1>1. PumpOK(c, cl[c], net[c]) /\ cl[c].state # "free" /\ UNCHANGED net
  BY DEF Rest, PumpsOK
<1>2. cl' = [cl EXCEPT ![c] = k]
  BY DEF Rest
<1>3. TRUE \in BOOLEAN
  BY Zenon
<1>4. PumpOK(c, k, net[c])
  BY <1>1, <1>3, RestOK
<1> HIDE DEF k
<1>5. QED
  BY <1>1, <1>2, <1>4, SameSockets

\* Idle clients are dropped, of those that all holds.
LEMMA PressureGoes ==
    ASSUME PumpsOK, SocketsClosed, NEW all, all = [x \in Clients |-> all[x]],
           cl' = all \/ cl' = Without(all, Idle(all)),
           \A x \in Clients : all[x] = cl[x] \/ (all[x] = Accepted /\ cl[x].state = "free")
    PROVE  PumpsOK'
<1>1. \A x \in Clients : cl'[x] = all[x] \/ cl'[x] = Free
  BY DEF Without
<1>2. cl' = [x \in Clients |-> cl'[x]]
  BY DEF Without
<1>3. \A x \in Clients : \/ cl'[x] = cl[x] \/ cl'[x] = Free
                         \/ cl'[x] = Accepted /\ cl[x].state = "free"
  BY <1>1
<1>4. QED
  BY <1>2, <1>3, ClientsComeAndGo

\* Accepting, and the timer that resumes it.
LEMMA ComingStep ==
    ASSUME PumpsOK, AcceptFails \/ redsocks_accept_backoff \/ \E c \in Clients : redsocks_accept_client(c)
    PROVE  PumpsOK'
<1>1. cl = [x \in Clients |-> cl[x]]
  BY DEF PumpsOK
<1>2. CASE AcceptFails
  <2>1. SocketsClosed /\ (cl' = cl \/ cl' = Without(cl, Idle(cl)))
    BY <1>2 DEF AcceptFails, conn_pressure
  <2>2. QED
    BY <1>1, <2>1, PressureGoes
<1>3. CASE redsocks_accept_backoff
  <2>1. SocketsClosed /\ (cl' = cl \/ cl' = Without(cl, Idle(cl)))
    BY <1>3 DEF redsocks_accept_backoff
  <2>2. QED
    BY <1>1, <2>1, PressureGoes
<1>4. ASSUME NEW c \in Clients, redsocks_accept_client(c) PROVE PumpsOK'
  <2> DEFINE all == [cl EXCEPT ![c] = Accepted]
  <2>1. SocketsClosed /\ (cl' = all \/ cl' = Without(all, Idle(all))) /\ cl[c].state = "free"
    BY <1>4 DEF redsocks_accept_client, conn_pressure
  <2>2. all = [x \in Clients |-> all[x]]
    BY <1>1
  <2>3. \A x \in Clients : all[x] = cl[x] \/ (all[x] = Accepted /\ cl[x].state = "free")
    BY <1>1, <2>1
  <2> HIDE DEF all
  <2>4. QED
    BY <2>1, <2>2, <2>3, PressureGoes
<1>5. QED
  BY <1>2, <1>3, <1>4

\* Every client, its pump and its sockets.
THEOREM Pumps == Spec => []PumpsOK
<1>1. Init => PumpsOK
  <2> SUFFICES ASSUME Init PROVE PumpsOK
    OBVIOUS
  <2>1. \A c \in Clients : cl[c] = Free /\ net[c] = Quiet
    BY DEF Init
  <2>2. \A c \in Clients : PumpOK(c, cl[c], net[c])
    BY <2>1, FreeOK
  <2>3. \A c \in Clients : Free \in Client /\ Quiet \in [Ends -> Socket]
    BY FreeOK DEF PumpOK, SocketsOK
  <2>4. cl \in [Clients -> Client] /\ net \in [Clients -> [Ends -> Socket]]
    BY <2>3 DEF Init
  <2>5. QED
    BY <2>2, <2>4 DEF PumpsOK
<1>2. PumpsOK /\ [Next]_vars => PumpsOK'
  <2> SUFFICES ASSUME PumpsOK, [Next]_vars PROVE PumpsOK'
    OBVIOUS
  <2>1. CASE UNCHANGED vars
    <3>1. cl' = cl /\ net' = net
      BY <2>1 DEF vars
    <3>2. QED
      BY <3>1 DEF PumpsOK
  <2>2. CASE AcceptFails \/ redsocks_accept_backoff \/ \E c \in Clients : redsocks_accept_client(c)
    BY <2>2, ComingStep
  <2>3. ASSUME NEW c \in Clients, redsocks_relay_connected(c) \/ socks5_read_cb(c) PROVE PumpsOK'
    BY <2>3, NegotiationStep
  <2>4. ASSUME NEW c \in Clients, ClientBuffers(c) PROVE PumpsOK'
    BY <2>4, BufferStep
  <2>5. ASSUME NEW c \in Clients, Reset(c) PROVE PumpsOK'
    BY <2>5, DropOK DEF Reset
  <2>6. ASSUME NEW c \in Clients, Rest(c) PROVE PumpsOK'
    BY <2>6, RestStep
  <2>7. ASSUME NEW c \in Clients, NEW d \in Directions, redsplice_read_cb(c, d) PROVE PumpsOK'
    BY <2>7, ReadStep
  <2>8. ASSUME NEW c \in Clients, NEW d \in Directions, redsplice_write_cb(c, d) PROVE PumpsOK'
    BY <2>8, WriteStep
  <2>9. ASSUME NEW c \in Clients, NEW s \in Ends, redsocks_event_error(c, s) PROVE PumpsOK'
    BY <2>9, ErrorStep
  <2>10. ASSUME NEW c \in Clients, NEW s \in Ends, Write(c, s) \/ End(c, s) PROVE PumpsOK'
    BY <2>10, SendStep
  <2>11. QED
    BY <2>1, <2>2, <2>3, <2>4, <2>5, <2>6, <2>7, <2>8, <2>9, <2>10 DEF Next
<1>3. QED
  BY <1>1, <1>2, PTL DEF Spec

\* Each pump of redsocks hands on the bytes that it read, in order and none
\* twice, relays the end of a stream after all of it, and never waits for an
\* event that nobody will bring about.
THEOREM PumpsCorrect == Spec => []PumpInv
<1>1. PumpsOK /\ AcceptInv => PumpInv
  <2> SUFFICES ASSUME PumpsOK, AcceptInv PROVE PumpInv
    OBVIOUS
  <2>1. TypeOK
    <3>1. ASSUME NEW c \in Clients
          PROVE  /\ cl[c].state \in States /\ cl[c].old \in BOOLEAN
                 /\ \A s \in Ends : cl[c].shut[s] \subseteq {"R", "W"}
                 /\ cl[c].on \subseteq Events /\ cl[c].active \subseteq Events
                 /\ \A s \in Ends : net[c][s].read <= net[c][s].pos /\ net[c][s].pos <= Bytes(c, s)
                 /\ cl[c].state = "free" => cl[c] = Free
      <4>1. PumpOK(c, cl[c], net[c])
        BY DEF PumpsOK
      <4>2. cl[c].old \in BOOLEAN
        BY <4>1 DEF PumpOK, Client
      <4>3. /\ cl[c].state \in States /\ \A s \in Ends : cl[c].shut[s] \subseteq {"R", "W"}
            /\ cl[c].on \subseteq Events /\ cl[c].active \subseteq Events
        BY <4>1 DEF PumpOK, Client
      <4>4. /\ \A s \in Ends : net[c][s].read <= net[c][s].pos /\ net[c][s].pos <= Bytes(c, s)
            /\ cl[c].state = "free" => cl[c] = Free
        BY <4>1 DEF PumpOK, SocketsOK, StageOK
      <4>5. QED
        BY <4>2, <4>3, <4>4
    <3>2. QED
      BY <3>1, Zenon DEF TypeOK, AcceptInv
  <2>2. Conserved
    BY DEF Conserved, PumpsOK, PumpOK, BytesOK, First
  <2>3. EndAfterData
    BY DEF EndAfterData, PumpsOK, PumpOK, EndsOK
  <2>4. SomebodyWaits
    BY DEF SomebodyWaits, PumpsOK, PumpOK, EventsOK, WaitsFor
  <2>5. QED
    BY <2>1, <2>2, <2>3, <2>4 DEF PumpInv
<1>2. QED
  BY <1>1, Pumps, Accepts, PTL
==============================================================================
