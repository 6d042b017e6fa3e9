--------------------------------- MODULE Aead ---------------------------------
(***************************************************************************)
(* The AEAD framing of shadowsocks-libev (aead.c), as operators on a       *)
(* cipher_ctx_t and a buffer.  A stream is the sender's salt and then      *)
(* chunks: a length block, the payload and its tag, sealed with the subkey *)
(* of the password and the salt under consecutive nonces.                  *)
(*                                                                         *)
(* A unit of a buffer is the salt, a length block with its tag, a byte of  *)
(* payload, or the payload's tag.  Opening a unit succeeds if it is the    *)
(* one sealed with this key and nonce.                                     *)
(***************************************************************************)
EXTENDS Naturals, Sequences, Ppbloom

CONSTANT Password   \* the password of the profile

SaltLen == 1
LenBlock == 1       \* CHUNK_SIZE_LEN + tag_len
TagLen == 1

\* aead_ctx_init
aead_ctx_init(salt) == [init |-> 0, salt |-> salt, nonce |-> 0, chunk |-> <<>>]

Unit(type, key, nonce, val) == [type |-> type, key |-> key, nonce |-> nonce, val |-> val]

SaltUnit(salt) == Unit("salt", <<>>, 0, salt)

\* aead_chunk_encrypt: it takes two nonces.
aead_chunk_encrypt(key, nonce, p) ==
    <<Unit("len", key, nonce, Len(p))>>
        \o [i \in DOMAIN p |-> Unit("data", key, nonce + 1, p[i])]
        \o <<Unit("tag", key, nonce + 1, Len(p))>>

\* aead_encrypt of a buffer with payload p: the buffer and the context after
\* it, and the filter, which learns the salt with the first chunk.
aead_encrypt(p, password, ctx, pp) ==
    LET first == ctx.init = 0
        chunk == aead_chunk_encrypt(<<password, ctx.salt>>, ctx.nonce, p)
    IN  IF p = <<>>
        THEN [buf |-> p, ctx |-> ctx, pp |-> pp]
        ELSE [buf |-> (IF first THEN <<SaltUnit(ctx.salt)>> ELSE <<>>) \o chunk,
              ctx |-> [ctx EXCEPT !.init = 1, !.nonce = @ + 2],
              pp |-> IF first THEN ppbloom_add(pp, ctx.salt) ELSE pp]

\* Mutant: what the cipher reports is not looked at.
ChunkDecryptUnverified(ctx) ==
    LET c == ctx.chunk
        mlen == c[1].val
    IN  IF Len(c) < LenBlock + mlen + TagLen
        THEN [err |-> "NEED_MORE", ctx |-> ctx, p |-> <<>>]
        ELSE [err |-> "OK", p |-> [i \in 1..mlen |-> c[LenBlock + i].val],
              ctx |-> [ctx EXCEPT !.nonce = @ + 2,
                                  !.chunk = SubSeq(c, LenBlock + mlen + TagLen + 1, Len(c))]]

\* aead_chunk_decrypt, on a context whose chunk is not empty.  The nonce and
\* the chunk move on only when the whole chunk is there.
aead_chunk_decrypt(ctx) ==
    LET key == <<Password, ctx.salt>>
        c == ctx.chunk
        mlen == c[1].val
        chunk_len == LenBlock + mlen + TagLen
        payload == SubSeq(c, LenBlock + 1, LenBlock + mlen)
        Error == [err |-> "ERROR", ctx |-> ctx, p |-> <<>>]
        More == [err |-> "NEED_MORE", ctx |-> ctx, p |-> <<>>]
    IN  IF Len(c) <= LenBlock + TagLen THEN More
        ELSE IF c[1] # Unit("len", key, ctx.nonce, mlen) \/ mlen = 0 THEN Error
        ELSE IF Len(c) < chunk_len THEN More
        ELSE IF SubSeq(c, 1, chunk_len) #
                    aead_chunk_encrypt(key, ctx.nonce, [i \in 1..mlen |-> payload[i].val])
             THEN Error
        ELSE [err |-> "OK", p |-> [i \in 1..mlen |-> payload[i].val],
              ctx |-> [ctx EXCEPT !.nonce = @ + 2, !.chunk = SubSeq(c, chunk_len + 1, Len(c))]]

\* Mutant: one chunk for each call.
DecryptOne(ctx) ==
    IF ctx.chunk = <<>> THEN [err |-> "OK", ctx |-> ctx, p |-> <<>>] ELSE aead_chunk_decrypt(ctx)

\* The loop of aead_decrypt: chunk after chunk until the buffer is empty or
\* one is not complete.
DecryptChunks(ctx) ==
    LET Step(st) ==
            IF st.err # "OK" \/ st.ctx.chunk = <<>> THEN st
            ELSE LET r == aead_chunk_decrypt(st.ctx)
                 IN  [r EXCEPT !.p = st.p \o r.p]
        turns == 1 + Len(ctx.chunk) \div (LenBlock + 1 + TagLen)
        loop[k \in 0..turns] ==
            IF k = 0 THEN [err |-> "OK", ctx |-> ctx, p |-> <<>>] ELSE Step(loop[k - 1])
    IN  loop[turns]

\* Mutant: the salt is not checked a second time.
RememberSaltUnchecked(st, pp) ==
    [err |-> "OK", buf |-> st.p, ctx |-> [st.ctx EXCEPT !.init = 2],
     pp |-> IF st.ctx.init = 2 THEN pp ELSE ppbloom_add(pp, st.ctx.salt)]

\* The end of aead_decrypt: the salt of a stream of which a chunk was opened is
\* checked again and remembered.
RememberSalt(st, pp) ==
    IF st.ctx.init = 2 THEN [err |-> "OK", buf |-> st.p, ctx |-> st.ctx, pp |-> pp]
    ELSE IF ppbloom_check(pp, st.ctx.salt)
    THEN [err |-> "ERROR", buf |-> <<>>, ctx |-> st.ctx, pp |-> pp]
    ELSE [err |-> "OK", buf |-> st.p, ctx |-> [st.ctx EXCEPT !.init = 2],
          pp |-> ppbloom_add(pp, st.ctx.salt)]

\* aead_decrypt of the bytes that arrived: an error, the payload, or nothing yet.
aead_decrypt(buf, old, pp) ==
    LET all == [old EXCEPT !.chunk = @ \o buf]
        salt == all.chunk[1].val
        ctx == IF old.init > 0 THEN all
               ELSE [all EXCEPT !.init = 1, !.salt = salt, !.nonce = 0,
                                !.chunk = SubSeq(all.chunk, SaltLen + 1, Len(all.chunk))]
        st == DecryptChunks(ctx)
    IN  IF old.init = 0 /\ Len(all.chunk) <= SaltLen
        THEN [err |-> "NEED_MORE", buf |-> <<>>, ctx |-> all, pp |-> pp]
        ELSE IF old.init = 0 /\ ppbloom_check(pp, salt)
        THEN [err |-> "ERROR", buf |-> <<>>, ctx |-> [all EXCEPT !.salt = salt], pp |-> pp]
        ELSE IF st.err = "ERROR" \/ (st.err = "NEED_MORE" /\ st.p = <<>>)
        THEN [err |-> st.err, buf |-> <<>>, ctx |-> st.ctx, pp |-> pp]
        ELSE RememberSalt(st, pp)

\* aead_encrypt_all and aead_decrypt_all: a datagram is a salt and one sealed
\* packet.
aead_encrypt_all(packet, salt, pp) ==
    [buf |-> [salt |-> salt, key |-> <<Password, salt>>, packet |-> packet],
     pp |-> ppbloom_add(pp, salt)]

aead_decrypt_all(dgram, pp) ==
    IF ppbloom_check(pp, dgram.salt) \/ dgram.key # <<Password, dgram.salt>>
    THEN [err |-> "ERROR", pp |-> pp]
    ELSE [err |-> "OK", pp |-> ppbloom_add(pp, dgram.salt)]

==============================================================================
