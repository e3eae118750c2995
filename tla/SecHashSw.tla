------------------------------- MODULE SecHashSw -------------------------------
(***************************************************************************)
(* SHA-1, SHA-256 and HMAC of SecLib.c, and the hash of SecLib_aes_mmo.c   *)
(* over AES, after what the standards say of them. A context is what the   *)
(* caller keeps: the hash, a buffer for a block, how much of it is filled, *)
(* and the total.                                                          *)
(*                                                                         *)
(* Digests are free constructions: the state of a hash is the sequence of  *)
(* blocks it has taken, so that two digests are equal exactly when the     *)
(* same blocks were hashed. A unit is a tuple; a block has BlockSize of    *)
(* them, the 64 (16) bytes of the code scaled down.                        *)
(***************************************************************************)
EXTENDS Integers, Sequences, SequencesExt

CONSTANTS BlockSize,    \* SHA256_BLOCK_SIZE, AES_MMO_BLOCK_SIZE
          DigestSize,   \* SHA256_HASH_SIZE, at most BlockSize
          LengthLimit,  \* values of the uint32_t that holds the length in bits
          MaxHashed     \* AES_MMO_MAX_HASHED_BYTES

Zero == <<"zero">>
Mark == <<"mark">>         \* 0x80
Garbage == <<"garbage">>   \* what memory holds before it is written
LengthIn(n) == (8 * n) % LengthLimit

Blanks(n) == [i \in 1 .. n |-> Zero]
Blocks(s, n) == [i \in 1 .. n |-> SubSeq(s, (i - 1) * BlockSize + 1, i * BlockSize)]

(* FLib_MemCpy of s to buffer[at].                                         *)
Overlay(buffer, at, s) ==
    [i \in 1 .. BlockSize |-> IF at < i /\ i <= at + Len(s) THEN s[i - at] ELSE buffer[i]]

Digest(alg, blocks) == [i \in 1 .. DigestSize |-> <<alg, blocks, i>>]

(* The exclusive or with ipad or opad, and from the one to the other.      *)
Padded(u, pad) == <<u, pad>>
Repadded(s) == [i \in DOMAIN s |-> Padded(s[i][1], "opad")]
-----------------------------------------------------------------------------
(* FIPS 180-4 and the Matyas-Meyer-Oseas hash of the Zigbee specification: *)
(* the mark, as few zeros as fill the last block, and the length.          *)
LongText == 2 * BlockSize    \* 8192: from here MMO has the length in more bytes
Ending(alg, n) == IF alg # "mmo" THEN <<Zero, <<"length", LengthIn(n)>>>>
                ELSE IF n < LongText THEN <<<<"length", LengthIn(n)>>>>
                ELSE <<<<"length", LengthIn(n), "high">>, <<"length", LengthIn(n), "low">>, Zero>>

HashOf(alg, text) ==
    LET tail == Ending(alg, Len(text))
        fill == (-(Len(text) + 1 + Len(tail))) % BlockSize
        all  == text \o <<Mark>> \o Blanks(fill) \o tail
    IN  Digest(alg, Blocks(all, Len(all) \div BlockSize))

(* RFC 2104.                                                               *)
HmacOf(alg, key, text) ==
    LET short == IF Len(key) > BlockSize THEN HashOf(alg, key) ELSE key
        whole == short \o Blanks(BlockSize - Len(short))
        With(pad) == [i \in 1 .. BlockSize |-> Padded(whole[i], pad)]
    IN  HashOf(alg, With("opad") \o HashOf(alg, With("ipad") \o text))
-----------------------------------------------------------------------------
(* The contents of allocated memory.                                       *)
Allocated == [hash |-> <<>>, buffer |-> [i \in 1 .. BlockSize |-> Garbage], bytes |-> 0, total |-> 0]
AllocatedHmac == [sha |-> Allocated, pad |-> <<>>]

(* SHA1_hash_n, SHA256_hash_n                                              *)
hash_n(s, n, hash) == hash \o Blocks(s, n)

SHA256_Init(c) == [c EXCEPT !.hash = <<>>, !.bytes = 0, !.total = 0]
SHA1_Init(c) == [c EXCEPT !.hash = <<>>, !.bytes = 0, !.total = 0]

(* Data that does not fill the buffer is stored. Else the buffer is filled *)
(* and hashed, then the whole blocks, and what is left is stored.          *)
SHA256_HashUpdate(c, data) ==
    IF c.bytes + Len(data) < BlockSize
    THEN [c EXCEPT !.buffer = Overlay(@, c.bytes, data), !.bytes = @ + Len(data), !.total = @ + Len(data)]
    ELSE LET copy  == IF c.bytes > 0 THEN BlockSize - c.bytes ELSE 0
             first == Overlay(c.buffer, c.bytes, SubSeq(data, 1, copy))
             rest  == SubSeq(data, copy + 1, Len(data))
             n     == Len(rest) \div BlockSize
             left  == SubSeq(rest, n * BlockSize + 1, Len(rest))
         IN  [hash |-> hash_n(rest, n, IF c.bytes > 0 THEN hash_n(first, 1, c.hash) ELSE c.hash),
              buffer |-> Overlay(IF c.bytes > 0 THEN first ELSE c.buffer, 0, left),
              bytes |-> Len(left), total |-> c.total + Len(data)]
SHA1_HashUpdate(c, data) == SHA256_HashUpdate(c, data)

(* Mutant: the mark and the length need one byte more than there is.       *)
FinishTight(c, alg) ==
    LET marked == Overlay(c.buffer, c.bytes, <<Mark>>)
        split  == c.bytes > BlockSize - 2
        spent  == Overlay(marked, c.bytes + 1, Blanks(BlockSize - c.bytes - 1))
        hash1  == IF split THEN hash_n(spent, 1, c.hash) ELSE c.hash
        last   == Overlay(IF split THEN Blanks(BlockSize) ELSE spent, BlockSize - 1,
                          <<<<"length", LengthIn(c.total)>>>>)
        hash2  == hash_n(last, 1, hash1)
    IN  [out |-> Digest(alg, hash2), ctx |-> [c EXCEPT !.buffer = last, !.hash = hash2]]

(* The mark, and zeros up to the length; without room for both the block   *)
(* is hashed and another one begun. Two units stand for the 8 bytes of the *)
(* length, of which the last 4 are written.                                *)
Finish(c, alg) ==
    LET marked == Overlay(c.buffer, c.bytes, <<Mark>>)
        split  == c.bytes >= BlockSize - 2
        spent  == Overlay(marked, c.bytes + 1, Blanks(BlockSize - c.bytes - 1))
        hash1  == IF split THEN hash_n(spent, 1, c.hash) ELSE c.hash
        last   == Overlay(IF split THEN Blanks(BlockSize) ELSE spent, BlockSize - 1,
                          <<<<"length", LengthIn(c.total)>>>>)
        hash2  == hash_n(last, 1, hash1)
    IN  [out |-> Digest(alg, hash2), ctx |-> [c EXCEPT !.buffer = last, !.hash = hash2]]

SHA256_HashFinish(c) == Finish(c, "sha256")
SHA1_HashFinish(c) == Finish(c, "sha1")

SHA256_Hash(data) == SHA256_HashFinish(SHA256_HashUpdate(SHA256_Init(Allocated), data)).out
SHA1_Hash(data) == SHA1_HashFinish(SHA1_HashUpdate(SHA1_Init(Allocated), data)).out
-----------------------------------------------------------------------------
(* Init(c), Update(c, d) and Hash(d) are those of the hash below.          *)
HmacPad(key, Hash(_)) ==
    LET short == IF Len(key) > BlockSize THEN Hash(key) ELSE key
    IN  [i \in 1 .. BlockSize |-> Padded(IF i <= Len(short) THEN short[i] ELSE Zero, "ipad")]

HMAC_SHA256_Init(c, key) ==
    LET pad == HmacPad(key, SHA256_Hash)
    IN  [sha |-> SHA256_HashUpdate(SHA256_Init(c.sha), pad), pad |-> Repadded(pad)]

HMAC_SHA256_Update(c, data) == [c EXCEPT !.sha = SHA256_HashUpdate(@, data)]

HMAC_SHA256_Finish(c) ==
    LET inner == SHA256_HashFinish(c.sha)
        outer == SHA256_HashFinish(SHA256_HashUpdate(SHA256_HashUpdate(
                     SHA256_Init(inner.ctx), c.pad), inner.out))
    IN  [out |-> outer.out, ctx |-> [c EXCEPT !.sha = outer.ctx]]

HMAC_SHA256(key, data) ==
    HMAC_SHA256_Finish(HMAC_SHA256_Update(HMAC_SHA256_Init(AllocatedHmac, key), data)).out
-----------------------------------------------------------------------------
AES_MMO_Init(c) == [c EXCEPT !.hash = <<>>, !.bytes = 0, !.total = 0]

(* Data past the limit is ignored, although the total may have counted it; *)
(* the caller is not told.                                                 *)
AES_MMO_HashUpdate(c, data) ==
    IF c.total >= MaxHashed \/ Len(data) > MaxHashed THEN c
    ELSE IF c.total + Len(data) >= MaxHashed THEN [c EXCEPT !.total = @ + Len(data)]
    ELSE IF Len(data) < BlockSize - c.bytes
    THEN [c EXCEPT !.buffer = Overlay(@, c.bytes, data), !.bytes = @ + Len(data), !.total = @ + Len(data)]
    ELSE LET copy   == IF c.bytes > 0 THEN BlockSize - c.bytes ELSE 0
             first  == Overlay(c.buffer, c.bytes, SubSeq(data, 1, copy))
             rest   == SubSeq(data, copy + 1, Len(data))
             n      == Len(rest) \div BlockSize
             left   == SubSeq(rest, n * BlockSize + 1, Len(rest))
             blocks == (IF c.bytes > 0 THEN <<first>> ELSE <<>>) \o Blocks(rest, n)
         IN  [hash |-> c.hash \o blocks, buffer |-> Overlay(Last(blocks), 0, left),
              bytes |-> Len(left), total |-> c.total + Len(data)]

(* uAdjust is where the length begins: one unit of it at the end of the    *)
(* block for a short text, two and a zero for a long one.                  *)
AES_MMO_HashFinish(c) ==
    LET long    == c.total >= LongText
        uAdjust == IF long THEN BlockSize - 3 ELSE BlockSize - 1
        split   == uAdjust < 1 + c.bytes
        marked  == Overlay(c.buffer, c.bytes, <<Mark>>)
        spent   == Overlay(marked, c.bytes + 1, Blanks(BlockSize - c.bytes - 1))
        begun   == IF split THEN Overlay(spent, 0, Blanks(uAdjust))
                   ELSE Overlay(marked, c.bytes + 1, Blanks(uAdjust - c.bytes - 1))
        n       == LengthIn(c.total)
        last    == Overlay(begun, uAdjust, IF long THEN <<<<"length", n, "high">>, <<"length", n, "low">>, Zero>>
                                           ELSE <<<<"length", n>>>>)
        hash2   == c.hash \o (IF split THEN <<spent>> ELSE <<>>) \o <<last>>
    IN  [out |-> Digest("mmo", hash2), ctx |-> [c EXCEPT !.buffer = last, !.hash = hash2]]

AES_MMO_Hash(data) == AES_MMO_HashFinish(AES_MMO_HashUpdate(AES_MMO_Init(Allocated), data)).out

HMAC_AES_MMO_Init(c, key) ==
    LET pad == HmacPad(key, AES_MMO_Hash)
    IN  [sha |-> AES_MMO_HashUpdate(AES_MMO_Init(c.sha), pad), pad |-> Repadded(pad)]

HMAC_AES_MMO_Update(c, data) == [c EXCEPT !.sha = AES_MMO_HashUpdate(@, data)]

HMAC_AES_MMO_Finish(c) ==
    LET inner == AES_MMO_HashFinish(c.sha)
        outer == AES_MMO_HashFinish(AES_MMO_HashUpdate(AES_MMO_HashUpdate(
                     AES_MMO_Init(inner.ctx), c.pad), inner.out))
    IN  [out |-> outer.out, ctx |-> [c EXCEPT !.sha = outer.ctx]]

HMAC_AES_MMO(key, data) ==
    HMAC_AES_MMO_Finish(HMAC_AES_MMO_Update(HMAC_AES_MMO_Init(AllocatedHmac, key), data)).out
===============================================================================
