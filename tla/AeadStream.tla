------------------------------ MODULE AeadStream ------------------------------
(***************************************************************************)
(* The encrypted streams of one ss-local process: every connection encrypts *)
(* to the server with a salt of its own and decrypts what comes back, and  *)
(* all of them share one filter of salts.  TCP cuts a stream anywhere, so  *)
(* aead_decrypt is called with any number of units.  What comes back may   *)
(* be a second copy of an earlier answer, a copy of what ss-local itself   *)
(* sent, or sealed with another password (a misconfigured server).         *)
(***************************************************************************)
EXTENDS Aead, FiniteSetsExt, TLC

CONSTANTS Streams,      \* answers, one for each connection
          OwnSalts,     \* salts that ss-local draws for its own direction
          PeerSalts,    \* salts of the server
          OtherPassword,
          CHUNK_SIZE_MASK,  \* the longest chunk
          MaxBytes      \* bound: payload of an answer

ASSUME AeadStreamAssumption ==
    /\ OwnSalts \cap PeerSalts = {}
    /\ OtherPassword # Password
    /\ CHUNK_SIZE_MASK \in Nat
    /\ MaxBytes \in Nat

VARIABLES
    salt,       \* the salt an answer was sealed with
    password,   \* and the password
    peer,       \* encrypting context of the sender of an answer
    own,        \* encrypting contexts of ss-local, by their salt
    wire,       \* units of an answer that were sent
    got,        \* how many of them have arrived
    ctx,        \* decrypting contexts of ss-local (d_ctx)
    open,       \* connections that have not been closed after CRYPTO_ERROR
    out,        \* payload handed to the client
    pp,         \* the filter of the process
    sent,       \* history: where the chunks of an answer end in its payload
    log         \* history: the salts added to the filter, in order

streamsVars == <<salt, password, peer, own, wire, got, ctx, open, out, pp, sent, log>>

Salts == OwnSalts \cup PeerSalts

Symmetry == Permutations(Streams) \cup Permutations(OwnSalts) \cup Permutations(PeerSalts)

\* Payload of the first k chunks of an answer, and of all of them.
Upto(s, k) == IF k = 0 THEN 0 ELSE sent[s][k]

Answered(s) == Upto(s, Len(sent[s]))

StreamsInit ==
    /\ salt \in [Streams -> Salts]
    /\ password \in [Streams -> {Password, OtherPassword}]
    /\ peer = [s \in Streams |-> aead_ctx_init(salt[s])]
    /\ own = [o \in OwnSalts |-> aead_ctx_init(o)]
    /\ wire = [s \in Streams |-> <<>>]
    /\ got = [s \in Streams |-> 0]
    /\ ctx = [s \in Streams |-> aead_ctx_init("none")]
    /\ open = Streams
    /\ out = [s \in Streams |-> <<>>]
    /\ pp = ppbloom_init
    /\ sent = [s \in Streams |-> <<>>]
    /\ log = <<>>

\* ss-local encrypts to the server; bounded to one chunk for each connection.
Send(o) ==
    /\ own[o].nonce < 2
    /\ LET r == aead_encrypt(<<0>>, Password, own[o], pp)
       IN  /\ own' = [own EXCEPT ![o] = r.ctx]
           /\ pp' = r.pp
           /\ log' = IF own[o].init = 0 THEN Append(log, o) ELSE log
    /\ UNCHANGED <<salt, password, peer, wire, got, ctx, open, out, sent>>

\* The other side seals the next n bytes of an answer.  A copy of what ss-local
\* sends exists once ss-local has sent it.
Answer(s, n) ==
    /\ Answered(s) + n <= MaxBytes
    /\ salt[s] \in OwnSalts => own[salt[s]].init = 1
    /\ LET r == aead_encrypt([i \in 1..n |-> Answered(s) + i], password[s], peer[s], ppbloom_init)
       IN  /\ peer' = [peer EXCEPT ![s] = r.ctx]
           /\ wire' = [wire EXCEPT ![s] = @ \o r.buf]
    /\ sent' = [sent EXCEPT ![s] = Append(@, Answered(s) + n)]
    /\ UNCHANGED <<salt, password, own, got, ctx, open, out, pp, log>>

\* remote_recv_cb: k units arrive and are decrypted.  After CRYPTO_ERROR the
\* connection is closed.
Receive(s, k) ==
    /\ s \in open
    /\ k \in 1..(Len(wire[s]) - got[s])
    /\ LET r == aead_decrypt(SubSeq(wire[s], got[s] + 1, got[s] + k), ctx[s], pp)
       IN  /\ ctx' = [ctx EXCEPT ![s] = r.ctx]
           /\ pp' = r.pp
           /\ open' = IF r.err = "ERROR" THEN open \ {s} ELSE open
           /\ out' = [out EXCEPT ![s] = @ \o r.buf]
           /\ log' = IF r.ctx.init = 2 /\ ctx[s].init < 2 THEN Append(log, r.ctx.salt) ELSE log
    /\ got' = [got EXCEPT ![s] = @ + k]
    /\ UNCHANGED <<salt, password, peer, own, wire, sent>>

StreamsNext ==
    \/ \E o \in OwnSalts : Send(o)
    \/ \E s \in Streams, n \in 1..CHUNK_SIZE_MASK : Answer(s, n)
    \/ \E s \in Streams, k \in 1..(3 * MaxBytes + 1) : Receive(s, k)

StreamsSpec == StreamsInit /\ [][StreamsNext]_streamsVars

------------------------------------------------------------------------------
(* Properties *)

\* The types of the state.
StreamsTypeOK ==
    /\ open \subseteq Streams
    /\ pp.current \in {PING, PONG}
    /\ \A i \in {PING, PONG} : pp.bloom[i] \subseteq Salts /\ pp.bloom_count[i] \in 0..(Entries - 1)
    /\ log \in Seq(Salts)
    /\ \A s \in Streams : ctx[s].init \in 0..2 /\ peer[s].init \in 0..1 /\ got[s] \in 0..Len(wire[s])
    /\ \A o \in OwnSalts : own[o].init \in 0..1

\* ppbloom_add: the two filters hold exactly the last salts added, at least
\* Entries of them whenever so many were added, and never more than twice that.
RemembersTheLast ==
    LET n == Entries + pp.bloom_count[pp.current]
    IN  pp.bloom[PING] \cup pp.bloom[PONG] =
            {log[i] : i \in {j \in DOMAIN log : j + n > Len(log)}}

\* aead_decrypt: an answer is accepted (init becomes 2) only with a salt that is
\* not among the last Entries used by either side, also when both copies were
\* open before either was accepted.
NoReplayAccepted ==
    [][\A s \in Streams :
           ctx[s].init < 2 /\ ctx'[s].init = 2 =>
               \A i \in DOMAIN log : i + Entries > Len(log) => log[i] # salt[s]]_streamsVars

\* aead_decrypt: an answer whose first chunk does not open leaves no trace, so
\* the salts that are refused later are those of ss-local and of answers that
\* were really accepted.
OnlyAuthenticSaltsKept ==
    \A i \in DOMAIN log :
        \/ log[i] \in OwnSalts /\ own[log[i]].init = 1
        \/ \E s \in Streams : salt[s] = log[i] /\ password[s] = Password /\ out[s] # <<>>

\* aead_decrypt: wherever TCP cuts the stream, a connection that is open has
\* handed over exactly the payload of the chunks that arrived completely.
NothingHeldBack ==
    \A s \in open :
        LET whole == {k \in 0..Len(sent[s]) :
                          SaltLen + Upto(s, k) + k * (LenBlock + TagLen) <= got[s]}
            n == IF whole = {} THEN 0 ELSE Upto(s, Max(whole))
        IN  password[s] = Password => out[s] = [i \in 1..n |-> i]

\* aead_decrypt: a connection is closed with CRYPTO_ERROR only before its first
\* chunk was accepted, because its answer was sealed with another password or
\* its salt was used by somebody else before.
RefusedForAReason ==
    \A s \in Streams \ open :
        /\ out[s] = <<>> /\ ctx[s].init < 2
        /\ password[s] # Password \/ \E i \in DOMAIN log : log[i] = salt[s]

\* The filter of salts: it holds the last salts, and only those of ss-local and
\* of answers that opened.
FilterInv == StreamsTypeOK /\ RemembersTheLast /\ OnlyAuthenticSaltsKept

\* aead_decrypt: a stream is delivered as far as it has arrived, or refused for
\* one of two reasons.
StreamInv == NothingHeldBack /\ RefusedForAReason

==============================================================================
