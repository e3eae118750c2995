------------------------------- MODULE SecLibSw -------------------------------
(***************************************************************************)
(* The AES functions of SecLib.c: the modes of operation are built here,   *)
(* over the software cipher.                                               *)
(***************************************************************************)
EXTENDS SecBlock

CONSTANT RoundLimit    \* values of the uint16_t that counts the blocks of a CMAC

AES_128_Encrypt(in, key) == Enc(key, in)
AES_128_Decrypt(in, key) == Dec(key, in)

(* Whole blocks, the last one filled with zeros and only as much of it     *)
(* written as was read.                                                    *)
AES_128_ECB_Encrypt(in, key) ==
    LET p == Pieces(in)
        Block(b) == SubSeq(AES_128_Encrypt(b \o Blank(BlockBytes - Len(b)), key), 1, Len(b))
    IN  FlattenSeq([i \in 1 .. Len(p) |-> Block(p[i])])

AES_128_ECB_Block_Encrypt(in, numBlocks, key) ==
    FlattenSeq([i \in 1 .. numBlocks |-> AES_128_Encrypt(Pieces(in)[i], key)])

AES_128_CBC_Encrypt(in, iv, key) ==
    LET Step(r, b) == LET c == AES_128_Encrypt(SecLib_XorN(r.iv, b, BlockBytes), key)
                      IN  Written(r.out \o c, c)
    IN  IF Ragged(in) THEN Refused(iv) ELSE FoldLeft(Step, Written(<<>>, iv), Pieces(in))

AES_128_CBC_Decrypt(in, iv, key) ==
    LET Step(r, b) == Written(r.out \o SecLib_XorN(AES_128_Decrypt(b, key), r.iv, BlockBytes), b)
    IN  IF Ragged(in) THEN Refused(iv) ELSE FoldLeft(Step, Written(<<>>, iv), Pieces(in))

AES_128_CBC_Encrypt_And_Pad(in, iv, key) == CbcPadded(AES_128_CBC_Encrypt, in, iv, key)
AES_128_CBC_Decrypt_And_Depad(in, iv, key) == CbcDepadded(AES_128_CBC_Decrypt, in, iv, key)

(* Mutant: no carry.                                                       *)
IncrementNoCarry(ctr) ==
    LET half == ByteSize ^ (BlockBytes \div 2)
    IN  Digits((Number(ctr) \div half) * half + ((Number(ctr) + 1) % half))

(* The 128-bit counter as two halves with a carry.                         *)
AES_128_IncrementCounter(ctr) ==
    LET half == ByteSize ^ (BlockBytes \div 2)
        low  == (Number(ctr) + 1) % half
        high == Number(ctr) \div half + (IF Number(ctr) % half > low THEN 1 ELSE 0)
    IN  Digits((high % half) * half + low)

(* The counter goes on after each block, a short last one included.        *)
AES_128_CTR(in, ctr, key) ==
    LET Step(r, b) == Written(r.out \o SecLib_XorN(b, AES_128_Encrypt(r.iv, key), Len(b)),
                              AES_128_IncrementCounter(r.iv))
    IN  FoldLeft(Step, Written(<<>>, ctr), Pieces(in))

AES_128_OFB(in, iv, key) ==
    LET Step(r, b) == LET o == AES_128_Encrypt(r.iv, key)
                      IN  Written(r.out \o SubSeq(SecLib_XorN(o, b, Len(b)), 1, Len(b)), o)
    IN  FoldLeft(Step, Written(<<>>, iv), Pieces(in)).out
-----------------------------------------------------------------------------
SecLib_Xor128(a, b) == XorSeq(a, b)

SecLib_LeftShiftOneBit(b) ==
    [i \in 1 .. BlockBytes |->
        ((2 * b[i]) % ByteSize) + (IF i < BlockBytes THEN (2 * b[i + 1]) \div ByteSize ELSE 0)]

AES_128_CMAC_Generate_Subkey(key) ==
    LET Next(b) == IF b[1] < ByteSize \div 2 THEN SecLib_LeftShiftOneBit(b)
                   ELSE SecLib_Xor128(SecLib_LeftShiftOneBit(b), Digits(Rb))
        k1 == Next(AES_128_Encrypt(Zero, key))
    IN  <<k1, Next(k1)>>

(* The rounds over the first n - 1 blocks and the prepared last one.       *)
CmacRounds(first, last, key) ==
    FoldLeft(LAMBDA x, b : AES_128_Encrypt(SecLib_Xor128(x, b), key), Zero, first \o <<last>>)

AES_128_CMAC(in, key) ==
    LET k == AES_128_CMAC_Generate_Subkey(key)
        n == ((Len(in) + BlockBytes - 1) \div BlockBytes) % RoundLimit
        residual == Len(in) % BlockBytes
        rounds == IF n = 0 THEN 1 ELSE n
        full == n # 0 /\ residual = 0
        Block(i) == SubSeq(in, (i - 1) * BlockBytes + 1, i * BlockBytes)
        tail == SubSeq(in, (rounds - 1) * BlockBytes + 1, (rounds - 1) * BlockBytes + residual)
    IN  CmacRounds([i \in 1 .. rounds - 1 |-> Block(i)],
                   IF full THEN SecLib_Xor128(Block(rounds), k[1])
                   ELSE SecLib_Xor128(SecLib_Padding(tail), k[2]), key)

(* The same of the reversed input: blocks are taken from its end, and the  *)
(* last one of the CMAC is at its start.                                   *)
AES_128_CMAC_LsbFirstInput(in, key) ==
    LET k == AES_128_CMAC_Generate_Subkey(key)
        n == ((Len(in) + BlockBytes - 1) \div BlockBytes) % RoundLimit
        residual == Len(in) % BlockBytes
        rounds == IF n = 0 THEN 1 ELSE n
        full == n # 0 /\ residual = 0
        Block(i) == MemCpyReverseOrder(SubSeq(in, Len(in) - i * BlockBytes + 1,
                                              Len(in) - (i - 1) * BlockBytes))
        head == MemCpyReverseOrder(SubSeq(in, 1, IF full THEN BlockBytes ELSE residual))
    IN  CmacRounds([i \in 1 .. rounds - 1 |-> Block(i)],
                   IF full THEN SecLib_Xor128(head, k[1])
                   ELSE SecLib_Xor128(SecLib_Padding(head), k[2]), key)

(* Nothing is written for an empty key.                                    *)
AES_CMAC_PRF_128(in, varKey) ==
    IF varKey = <<>> THEN <<>>
    ELSE AES_128_CMAC(in, IF Len(varKey) = BlockBytes THEN varKey
                          ELSE AES_128_CMAC(varKey, Zero))

AES_128_EAX_Encrypt(in, nonce, header, key) ==
    EaxSealed(AES_128_CMAC, AES_128_CTR, in, nonce, header, key)
AES_128_EAX_Decrypt(in, nonce, header, key, tag) ==
    EaxOpened(AES_128_CMAC, AES_128_CTR, in, nonce, header, key, tag)
AES_128_CCM(in, auth, nonce, key, tag, decrypt) == Ccm(in, auth, nonce, key, tag, decrypt)

SecLib_GenerateBluetoothF5Keys(w, n1, n2, a1at, a1, a2at, a2) ==
    F5Keys(AES_128_CMAC, AES_128_CMAC_LsbFirstInput, w, n1, n2, a1at, a1, a2at, a2)
SecLib_VerifyBluetoothAh(key, r) == AhHash(AES_128_Encrypt, key, r)
===============================================================================
