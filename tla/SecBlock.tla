------------------------------- MODULE SecBlock -------------------------------
(***************************************************************************)
(* What the back ends of SecLib share: blocks, the block cipher itself     *)
(* (a library or a peripheral, external), the modes of operation as their  *)
(* standards define them, and the constructions the back ends repeat over  *)
(* their own primitives. A byte has ByteSize values and a block BlockBytes *)
(* bytes; 128-bit blocks of 8-bit bytes are scaled down to a few bits.     *)
(***************************************************************************)
EXTENDS Integers, Sequences, SequencesExt

CONSTANTS ByteSize,    \* values of a byte
          BlockBytes,  \* AES_BLOCK_SIZE
          ByteXor,     \* ByteXor[a][b]: exclusive or of two bytes
          Encipher,    \* Encipher[k][b]: the permutation a key makes of the blocks
          Rb           \* the constant of the doubling in CMAC, 0x87

Byte == 0 .. ByteSize - 1
Blocks == [1 .. BlockBytes -> Byte]
BlockCount == ByteSize ^ BlockBytes
Zero == [i \in 1 .. BlockBytes |-> 0]

Number(b) == FoldLeft(LAMBDA v, x : v * ByteSize + x, 0, b)
Digits(v) == [i \in 1 .. BlockBytes |-> (v \div ByteSize ^ (BlockBytes - i)) % ByteSize]

Enc(key, b) == Digits(Encipher[Number(key)][Number(b)])
Dec(key, b) == Digits(CHOOSE v \in 0 .. BlockCount - 1 : Encipher[Number(key)][v] = Number(b))

XorSeq(a, b) == [i \in 1 .. Len(a) |-> ByteXor[a[i]][b[i]]]
Whole(n) == n - (n % BlockBytes)
Blank(n) == [i \in 1 .. n |-> 0]

(* s in blocks, the last of which may be short; an empty s is one empty    *)
(* block.                                                                  *)
Pieces(s) ==
    LET n == IF s = <<>> THEN 1 ELSE (Len(s) + BlockBytes - 1) \div BlockBytes
    IN  [i \in 1 .. n |-> SubSeq(s, (i - 1) * BlockBytes + 1,
                                 IF i = n THEN Len(s) ELSE i * BlockBytes)]
Written(out, x) == [ok |-> TRUE, out |-> out, iv |-> x]
Refused(x) == [ok |-> FALSE, out |-> <<>>, iv |-> x]
Ragged(in) == Len(in) = 0 \/ Len(in) % BlockBytes # 0
-----------------------------------------------------------------------------
(* The modes as SP 800-38A, RFC 4493 and RFC 4615 define them.             *)
CbcText(key, iv, in) ==
    LET p == Pieces(in)
        c[i \in 0 .. Len(p)] == IF i = 0 THEN iv ELSE Enc(key, XorSeq(p[i], c[i - 1]))
    IN  FlattenSeq([i \in 1 .. Len(p) |-> c[i]])

CtrText(key, ctr, in) ==
    LET p == Pieces(in)
    IN  FlattenSeq([i \in 1 .. Len(p) |->
          XorSeq(p[i], Enc(key, Digits((Number(ctr) + i - 1) % BlockCount)))])

OfbText(key, iv, in) ==
    LET p == Pieces(in)
        o[i \in 0 .. Len(p)] == IF i = 0 THEN iv ELSE Enc(key, o[i - 1])
    IN  FlattenSeq([i \in 1 .. Len(p) |-> XorSeq(p[i], o[i])])

Doubled(v) == IF 2 * v < BlockCount THEN Digits(2 * v)
              ELSE XorSeq(Digits(2 * v - BlockCount), Digits(Rb))

CmacTag(key, in) ==
    LET p == Pieces(in)
        n == Len(p)
        k1 == Doubled(Number(Enc(key, Zero)))
        k2 == Doubled(Number(k1))
        last == IF Len(p[n]) = BlockBytes THEN XorSeq(p[n], k1)
                ELSE XorSeq(p[n] \o <<ByteSize \div 2>> \o Blank(BlockBytes - Len(p[n]) - 1), k2)
        x[i \in 0 .. n] == IF i = 0 THEN Zero
                           ELSE Enc(key, XorSeq(x[i - 1], IF i = n THEN last ELSE p[i]))
    IN  x[n]

PrfTag(varKey, in) ==
    CmacTag(IF Len(varKey) = BlockBytes THEN varKey ELSE CmacTag(Zero, varKey), in)

(* CCM: the text is that of CTR, the tag a CBC-MAC of the nonce, the       *)
(* authenticated data and the plain text, encrypted.                       *)
CcmText(key, nonce, in) == CtrText(key, Digits((Number(nonce) + 1) % BlockCount), in)
CcmTag(key, nonce, auth, in) ==
    LET Step(x, b) == Enc(key, XorSeq(b \o Blank(BlockBytes - Len(b)), x))
    IN  XorSeq(FoldLeft(Step, Enc(key, nonce), Pieces(auth) \o Pieces(in)), Enc(key, nonce))
Ccm(in, auth, nonce, key, tag, decrypt) ==
    LET out == CcmText(key, nonce, in)
    IN  IF ~ decrypt THEN Written(out, CcmTag(key, nonce, auth, in))
        ELSE IF tag = CcmTag(key, nonce, auth, out) THEN Written(out, tag) ELSE Refused(tag)
-----------------------------------------------------------------------------
(* FLib_MemCpyReverseOrder                                                 *)
MemCpyReverseOrder(s) == Reverse(s)

(* SecLib_XorN, the same in each back end                                  *)
SecLib_XorN(dst, src, n) == [i \in 1 .. Len(dst) |-> IF i <= n THEN ByteXor[dst[i]][src[i]] ELSE dst[i]]

(* The padding of ISO 7816-4: a one bit, then zeros; nothing if there is   *)
(* no room for it.                                                         *)
SecLib_Padding(last) ==
    [i \in 1 .. BlockBytes |-> IF i <= Len(last) THEN last[i]
                               ELSE IF i = Len(last) + 1 THEN ByteSize \div 2 ELSE 0]

(* The length of the padding at the end of b, 0 if there is none.          *)
SecLib_DePadding(b) ==
    LET used == {i \in 1 .. BlockBytes : b[i] # 0}
        i == CHOOSE j \in used : \A k \in used : k <= j
    IN  IF used # {} /\ b[i] = ByteSize \div 2 THEN BlockBytes - i + 1 ELSE 0

(* AES_128_CBC_Encrypt_And_Pad over the CBC of a back end.                 *)
CbcPadded(Cbc(_, _, _), in, iv, key) ==
    LET whole == Whole(Len(in))
        first == Cbc(SubSeq(in, 1, whole), iv, key)
        last  == Cbc(SecLib_Padding(SubSeq(in, whole + 1, Len(in))), first.iv, key)
    IN  IF first.ok THEN Written(first.out \o last.out, last.iv) ELSE Refused(iv)

(* AES_128_CBC_Decrypt_And_Depad over the CBC of a back end.               *)
CbcDepadded(Cbc(_, _, _), in, iv, key) ==
    LET r == Cbc(in, iv, key)
        n == SecLib_DePadding(SubSeq(r.out, Len(r.out) - BlockBytes + 1, Len(r.out)))
    IN  IF r.ok /\ n > 0 THEN Written(SubSeq(r.out, 1, Len(r.out) - n), r.iv)
        ELSE [Refused(r.iv) EXCEPT !.ok = FALSE]

(* AES_128_EAX_Encrypt and AES_128_EAX_Decrypt over the CMAC and the CTR   *)
(* of a back end. OMAC is the CMAC behind a block that holds its number.   *)
Omac(Cmac(_, _), t, s, key) == Cmac(Blank(BlockBytes - 1) \o <<t>> \o s, key)
EaxTag(Cmac(_, _), nonce, header, out, key) ==
    XorSeq(XorSeq(Omac(Cmac, 0, nonce, key), Omac(Cmac, 2, out, key)), Omac(Cmac, 1, header, key))

EaxSealed(Cmac(_, _), Ctr(_, _, _), in, nonce, header, key) ==
    LET mac == Omac(Cmac, 0, nonce, key)
        ctr == [i \in 1 .. BlockBytes |-> IF i <= Len(nonce) THEN mac[i] ELSE 0]
        out == Ctr(in, ctr, key).out
    IN  [out |-> out, tag |-> EaxTag(Cmac, nonce, header, out, key)]

EaxOpened(Cmac(_, _), Ctr(_, _, _), in, nonce, header, key, tag) ==
    IF tag = EaxTag(Cmac, nonce, header, in, key)
    THEN Written(Ctr(in, Omac(Cmac, 0, nonce, key), key).out, <<>>) ELSE Refused(<<>>)

(* SecLib_GenerateBluetoothF5Keys over the two CMACs of a back end: the    *)
(* key T from the DH key w, then the MacKey and the LTK, which differ in   *)
(* the counter at the front.                                               *)
F5Keys(Cmac(_, _), CmacLsb(_, _), w, n1, n2, a1at, a1, a2at, a2) ==
    LET salt == [i \in 1 .. BlockBytes |-> i % ByteSize]
        t == CmacLsb(w, salt)
        buf(counter) == <<counter>> \o <<ByteSize \div 2>> \o MemCpyReverseOrder(n1)
                        \o MemCpyReverseOrder(n2) \o <<a1at % 2>> \o MemCpyReverseOrder(a1)
                        \o <<a2at % 2>> \o MemCpyReverseOrder(a2) \o <<1, 0>>
    IN  <<MemCpyReverseOrder(Cmac(buf(0), t)), MemCpyReverseOrder(Cmac(buf(1), t))>>

(* SecLib_VerifyBluetoothAh over the cipher of a back end.                 *)
AhHash(AES(_, _), key, r) ==
    LET out == AES(Blank(BlockBytes - Len(r)) \o MemCpyReverseOrder(r), MemCpyReverseOrder(key))
    IN  SubSeq(MemCpyReverseOrder(out), 1, Len(r))
===============================================================================
