----------------------------- MODULE HashPadding -----------------------------
(***************************************************************************)
(* How the SHA-2 and MD5 programs cut a message into blocks: 2022-03-19-   *)
(* SHA2, Sandbox/sha512.hpp, Sandbox/sha256.cpp, lightning's sha256.cpp,   *)
(* 2021-09-18-MD5 and Sandbox/md5.hpp.                                     *)
(*                                                                         *)
(* The compression of a block into the state words is left uninterpreted:  *)
(* a state is the sequence of the blocks that went into it, and a digest   *)
(* is a state with the number of its words that are written.  Messages     *)
(* have less than 2^28 bytes, so that of the length's bytes the lowest     *)
(* four count.                                                             *)
(***************************************************************************)
EXTENDS Integers, Sequences, SequencesExt

Byte(bits, k) == IF k > 3 THEN 0 ELSE (bits \div 256 ^ k) % 256
BigEndian(bits, n) == [i \in 1 .. n |-> Byte(bits, n - i)]
LittleEndian(bits, n) == [i \in 1 .. n |-> Byte(bits, i - 1)]
Zeros(n) == [i \in 1 .. n |-> 0]
Blocks(s, size) == [k \in 1 .. Len(s) \div size |-> SubSeq(s, (k - 1) * size + 1, k * size)]
Digest(type, words, state) == [type |-> type, words |-> words, state |-> state]
\* What strlen leaves of a text.
CString(text) ==
    LET nul == SelectInSeq(text, LAMBDA byte : byte = 0)
    IN  IF nul = 0 THEN text ELSE SubSeq(text, 1, nul - 1)

-----------------------------------------------------------------------------
(* The contexts of the SHA-2 headers: data has the data_length bytes of the *)
(* block that is not full.                                                  *)

Context(type) == [type |-> type, data |-> <<>>, bit_length |-> 0, state |-> <<>>]
transform(ctx, block) == [ctx EXCEPT !.state = Append(@, block)]

Update(ctx, buffer, size) ==
    LET step(c, byte) ==
            LET data == Append(c.data, byte)
            IN  IF Len(data) < size THEN [c EXCEPT !.data = data]
                ELSE [transform(c, data) EXCEPT !.data = <<>>, !.bit_length = @ + 8 * size]
    IN  FoldLeft(step, ctx, buffer)

\* Mutant: a block with no room for the length is compressed without the mark.
FinalUnmarked(ctx, size, room) ==
    LET length == Len(ctx.data)
        bits == BigEndian(ctx.bit_length + 8 * length, 8)
    IN  IF length < room THEN transform(ctx, ctx.data \o <<128>> \o Zeros(room - length - 1) \o bits)
        ELSE transform(transform(ctx, ctx.data \o Zeros(size - length)), Zeros(room) \o bits)

\* The mark, zeros up to the last eight bytes, of a block of its own where
\* there is no room for them, and the length in bits.
Final(ctx, size, room) ==
    LET length == Len(ctx.data)
        marked == ctx.data \o <<128>>
        bits == BigEndian(ctx.bit_length + 8 * length, 8)
    IN  IF length < room THEN transform(ctx, marked \o Zeros(room - length - 1) \o bits)
        ELSE transform(transform(ctx, marked \o Zeros(size - length - 1)), Zeros(room) \o bits)

sha256_init == Context("SHA256")
sha224_init == Context("SHA224")
sha224_256_update(ctx, buffer) == Update(ctx, buffer, 64)
sha224_256_to_string(ctx) == Digest(ctx.type, IF ctx.type = "SHA256" THEN 8 ELSE 7, ctx.state)
sha224_256_final(ctx) == sha224_256_to_string(Final(ctx, 64, 56))
sha224_256_bytes(ctx, buffer) == sha224_256_final(sha224_256_update(ctx, buffer))
\* A file is the sequence of the chunks that fread gives.
sha224_256_file(ctx, chunks) == sha224_256_final(FoldLeft(sha224_256_update, ctx, chunks))

sha384_init == Context("SHA384")
sha512_init == Context("SHA512")
sha384_512_transform(ctx, block) == transform(ctx, block)
sha384_512_update(ctx, buffer) == Update(ctx, buffer, 128)
sha384_512_to_string(ctx) == Digest(ctx.type, IF ctx.type = "SHA512" THEN 8 ELSE 6, ctx.state)
sha384_512_final(ctx) == sha384_512_to_string(Final(ctx, 128, 120))
sha384_512_bytes(ctx, buffer) == sha384_512_final(sha384_512_update(ctx, buffer))
sha384_512_file(ctx, chunks) == sha384_512_final(FoldLeft(sha384_512_update, ctx, chunks))

\* Sandbox/sha512.hpp, an earlier version of the same.
sandbox_sha512_transform(ctx, block) == transform(ctx, block)
sandbox_sha512_update(ctx, data) == Update(ctx, data, 128)
sandbox_sha512_to_string(ctx) == Digest("SHA512", 8, ctx.state)
sandbox_sha512_final(ctx) == sandbox_sha512_to_string(Final(ctx, 128, 120))
sha512_buffer(data) == sandbox_sha512_final(sandbox_sha512_update(sha512_init, data))

-----------------------------------------------------------------------------
(* Sandbox/sha256.cpp: an object has its data, but all of them share the    *)
(* static states, blocklen and bitlen, here s.                              *)

SHA256_junk == [i \in 1 .. 64 |-> 77]
states_reset == [state |-> <<>>, blocklen |-> 0, bitlen |-> 0]
sha256gen(s, data) == [s EXCEPT !.state = Append(@, data)]
\* update: <<s, data>>.  Only strlen tells where the text ends.
update(data, text) ==
    LET step(p, byte) ==
            LET s == p[1]
                d == [p[2] EXCEPT ![s.blocklen + 1] = byte]
            IN  IF s.blocklen + 1 < 64 THEN <<[s EXCEPT !.blocklen = @ + 1], d>>
                ELSE <<[sha256gen(s, d) EXCEPT !.bitlen = @ + 512, !.blocklen = 0], d>>
    IN  FoldLeft(step, <<states_reset, data>>, CString(text))
\* pad: its two compressions; blocklen stays.
pad(s, data) ==
    LET end == IF s.blocklen < 56 THEN 56 ELSE 64
        marked == [i \in 1 .. 64 |-> IF i = s.blocklen + 1 THEN 128
                                     ELSE IF i > s.blocklen /\ i <= end THEN 0 ELSE data[i]]
        first == IF s.blocklen >= 56 THEN sha256gen(s, marked) ELSE s
        bits == s.bitlen + 8 * s.blocklen
        last == (IF s.blocklen >= 56 THEN Zeros(56) ELSE SubSeq(marked, 1, 56)) \o BigEndian(bits, 8)
    IN  [sha256gen(first, last) EXCEPT !.bitlen = bits]
digest(s, data) == Digest("SHA256", 8, pad(s, data).state)

\* read_from_file of size bytes, of which the one at ff, if any, is 0xFF: as a
\* char it is EOF and ends the read.  The buffer grows when it is made and at
\* byte 1024; without a byte there is none, and the null goes through NULL.
read_from_file(size, ff) ==
    LET index == IF ff \in 1 .. size THEN ff - 1 ELSE size
        capacity == IF index > 1024 THEN 65535 * 2 + 1 ELSE 65535 + 1
    IN  [bytes |-> index,
         end |-> IF index = 0 THEN "null" ELSE IF index + 1 > capacity THEN "overrun" ELSE "ok"]

-----------------------------------------------------------------------------
(* lightning's sha256.cpp: junk is the byte that the unset rest of the      *)
(* padding has; a shift by 32 and more is undefined, and gives either 0 or, *)
(* as the processor counts modulo 32, the low bytes again.                  *)

pre_processing(message, junk, again) ==
    LET n == Len(message)
        bits == 8 * n
        k == 512 - ((64 + 1 + bits) % 512)
        total == (64 + 1 + bits + k) \div 8
    IN  message \o <<128>> \o [i \in 1 .. total - n - 9 |-> junk]
        \o [i \in 1 .. 8 |-> Byte(bits, IF again THEN (8 - i) % 4 ELSE 8 - i)]
Allocated(message) == Len(message)
process_512_chunks(s) == Digest("SHA256", 8, Blocks(s, 64))
\* The constructor takes the length of its text from strlen.
SHA256(msg) == CString(msg)
hash(msg, junk, again) == process_512_chunks(pre_processing(SHA256(msg), junk, again))

-----------------------------------------------------------------------------
(* 2021-09-18-MD5: data_length counts all bytes, data is the array. *)

md5_init == [data_length |-> 0, data |-> [i \in 1 .. 64 |-> 77], state |-> <<>>]
md5_transform(ctx) == [ctx EXCEPT !.state = Append(@, ctx.data)]
md5_update(ctx, buffer) ==
    LET step(p, byte) ==
            LET c == [p.ctx EXCEPT !.data[p.offset + 1] = byte]
            IN  IF (p.offset + 1) % 64 = 0 THEN [ctx |-> md5_transform(c), offset |-> 0]
                ELSE [ctx |-> c, offset |-> p.offset + 1]
        start == [ctx |-> [ctx EXCEPT !.data_length = @ + Len(buffer)], offset |-> ctx.data_length % 64]
    IN  FoldLeft(step, start, buffer).ctx
md5_to_string(ctx) ==
    Digest("MD5", 4, md5_transform([ctx EXCEPT !.data =
        SubSeq(@, 1, 56) \o LittleEndian(8 * ctx.data_length, 8)]).state)
md5_finalize(ctx) ==
    LET offset == ctx.data_length % 64
        padding_length == IF offset < 56 THEN 56 - offset ELSE 56 + 64 - offset
        padded == md5_update(ctx, <<128>> \o Zeros(padding_length - 1))
    IN  md5_to_string([padded EXCEPT !.data_length = @ - padding_length])
md5_bytes(buffer) == md5_finalize(md5_update(md5_init, buffer))
md5_file(chunks) == md5_finalize(FoldLeft(md5_update, md5_init, chunks))

-----------------------------------------------------------------------------
(* Sandbox/md5.hpp pads in one buffer; junk is what stands behind it. *)

md5_align_to_chunk_size(length) == ((length + 8) \div 64 + 1) * 64 - 8
md5_create_padded_buffer(buffer) == buffer \o <<128>> \o Zeros(63)
md5_impl(buffer, junk) ==
    LET padded == md5_create_padded_buffer(buffer)
        new_size == md5_align_to_chunk_size(Len(buffer))
        bits == LittleEndian(8 * Len(buffer), 4)
    IN  [i \in 1 .. new_size + 8 |->
            IF i \in new_size + 1 .. new_size + 4 THEN bits[i - new_size]
            ELSE IF i <= Len(padded) THEN padded[i] ELSE junk]
md5_process_chunk(s, offset) == SubSeq(s, offset + 1, offset + 64)
sandbox_md5_bytes(buffer, junk) ==
    LET s == md5_impl(buffer, junk)
    IN  Digest("MD5", 4, [k \in 1 .. Len(s) \div 64 |-> md5_process_chunk(s, 64 * (k - 1))])

-----------------------------------------------------------------------------
(* Properties *)

\* The padding of the standards: the length takes the last bytes of a block.
Standard(message, size, length) ==
    LET zeros == (size - ((Len(message) + 1 + Len(length)) % size)) % size
    IN  Blocks(message \o <<128>> \o Zeros(zeros) \o length, size)
Standard256(m) == Digest("SHA256", 8, Standard(m, 64, BigEndian(8 * Len(m), 8)))
Standard512(m) == Digest("SHA512", 8, Standard(m, 128, BigEndian(8 * Len(m), 16)))
StandardMd5(m) == Digest("MD5", 4, Standard(m, 64, LittleEndian(8 * Len(m), 8)))

\* The padded blocks are those of the standard, whatever pieces the message
\* comes in.  Of SHA-384 and SHA-512 they are not where 112 to 119 bytes are
\* left: the length has eight bytes, not sixteen, and so a block less.
\* lightning's SHA-256 is of the text before the first null, writes behind its
\* buffer, and is right only where no padding is left unset and the length's
\* high bytes happen to be zero.  The other MD5 writes behind its buffer where 56 or more bytes are left.
PaddingSound(message, cut, junk) ==
    LET n == Len(message)
        chunks == <<SubSeq(message, 1, cut), SubSeq(message, cut + 1, n)>>
        text == CString(message)
    IN  /\ sha224_256_bytes(sha256_init, message) = Standard256(message)
        /\ sha224_256_file(sha256_init, chunks) = Standard256(message)
        /\ sha224_256_file(sha224_init, chunks) = Digest("SHA224", 7, Standard256(message).state)
        /\ sha384_512_bytes(sha512_init, message) = Standard512(message) <=> n % 128 \notin 112 .. 119
        /\ sha384_512_file(sha384_init, chunks)
               = Digest("SHA384", 6, sha384_512_bytes(sha512_init, message).state)
        /\ sha512_buffer(message) = sha384_512_bytes(sha512_init, message)
        /\ md5_bytes(message) = StandardMd5(message) /\ md5_file(chunks) = StandardMd5(message)
        /\ Len(pre_processing(text, junk, TRUE)) > Allocated(text)
        /\ \A again \in BOOLEAN :
               hash(message, junk, again) = Standard256(text)
                   <=> (junk = 0 \/ Len(text) % 64 = 55) /\ (text = <<>> \/ ~again)
        /\ Len(md5_impl(message, junk)) > n + 64 <=> n % 64 >= 56
        /\ n % 64 < 56 => sandbox_md5_bytes(message, junk) = StandardMd5(message)

\* An object that is updated and then asked has the digest of its last text up
\* to the first null; one that is asked after another object's update has, of
\* its own data, as many bytes as the other left over, behind the other's full
\* blocks.
SharedStatesSound(text, other) ==
    LET mine == update(SHA256_junk, text)
        theirs == update(SHA256_junk, other)
        again == update(mine[2], other)
        others == CString(other)
        left == Len(others) % 64
    IN  /\ digest(mine[1], mine[2]) = Standard256(CString(text))
        /\ digest(again[1], again[2]) = Standard256(others)
        /\ digest(theirs[1], mine[2])
               = Standard256(SubSeq(others, 1, Len(others) - left) \o SubSeq(mine[2], 1, left))

\* A file is read whole only if it is not empty, has no byte 0xFF and less than
\* 131071 bytes; only a long one writes behind the buffer.
ReadSound(size, ff) ==
    LET read == read_from_file(size, ff)
    IN  /\ read = [bytes |-> size, end |-> "ok"] <=> size \in 1 .. 131070 /\ ff \notin 1 .. size
        /\ read.end = "overrun" => size > 131070
=============================================================================
