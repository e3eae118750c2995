------------------------------- MODULE SecLibSss ------------------------------
(***************************************************************************)
(* The AES functions of SecLib_sss.c, which hands its input to the secure  *)
(* subsystem; the modes are those of the subsystem (external).             *)
(***************************************************************************)
EXTENDS SecBlock

AES_128_Encrypt(in, key) == Enc(key, in)
AES_128_Decrypt(in, key) == Dec(key, in)

AES_128_ECB_Encrypt(in, key) ==
    IF Ragged(in) THEN <<>>
    ELSE FlattenSeq([i \in 1 .. Len(Pieces(in)) |-> Enc(key, Pieces(in)[i])])

AES_128_CBC_Encrypt(in, iv, key) ==
    LET out == CbcText(key, iv, in)
    IN  IF Ragged(in) THEN Refused(iv)
        ELSE Written(out, SubSeq(out, Len(in) - BlockBytes + 1, Len(in)))

(* The IV of the next call is the last block of the input.                 *)
AES_128_CBC_Decrypt(in, iv, key) ==
    LET p == Pieces(iv \o in)
    IN  IF Ragged(in) THEN Refused(iv)
        ELSE Written(FlattenSeq([i \in 1 .. Len(p) - 1 |-> XorSeq(Dec(key, p[i + 1]), p[i])]),
                     SubSeq(in, Len(in) - BlockBytes + 1, Len(in)))

AES_128_CBC_Encrypt_And_Pad(in, iv, key) == CbcPadded(AES_128_CBC_Encrypt, in, iv, key)
AES_128_CBC_Decrypt_And_Depad(in, iv, key) == CbcDepadded(AES_128_CBC_Decrypt, in, iv, key)

(* Any length; the offset into the block is not kept for the next call.    *)
AES_128_CTR(in, ctr, key) ==
    Written(CtrText(key, ctr, in), Digits((Number(ctr) + Len(Pieces(in))) % BlockCount))

AES_128_OFB(in, iv, key) == IF Ragged(in) THEN <<>> ELSE OfbText(key, iv, in)

AES_128_CMAC(in, key) == CmacTag(key, in)

(* Mutant: the last, shorter piece is not reversed.                        *)
LsbCopyPart(in, key) ==
    LET copy[n \in 0 .. Len(in)] ==
          IF n <= BlockBytes THEN SubSeq(in, 1, n)
          ELSE MemCpyReverseOrder(SubSeq(in, n - BlockBytes + 1, n)) \o copy[n - BlockBytes]
    IN  AES_128_CMAC(copy[Len(in)], key)

(* A subsystem that takes a message in one piece only is given a reversed  *)
(* copy of it, block by block from the end; without memory for the copy    *)
(* nothing is written.                                                     *)
AES_128_CMAC_LsbFirstInput(in, key) ==
    LET copy[n \in 0 .. Len(in)] ==
          IF n <= BlockBytes THEN MemCpyReverseOrder(SubSeq(in, 1, n))
          ELSE MemCpyReverseOrder(SubSeq(in, n - BlockBytes + 1, n)) \o copy[n - BlockBytes]
    IN  AES_128_CMAC(copy[Len(in)], key)

AES_CMAC_PRF_128(in, varKey) == PrfTag(varKey, in)

AES_128_EAX_Encrypt(in, nonce, header, key) ==
    EaxSealed(AES_128_CMAC, AES_128_CTR, in, nonce, header, key)
AES_128_EAX_Decrypt(in, nonce, header, key, tag) ==
    EaxOpened(AES_128_CMAC, AES_128_CTR, in, nonce, header, key, tag)
AES_128_CCM(in, auth, nonce, key, tag, decrypt) == Ccm(in, auth, nonce, key, tag, decrypt)

SecLib_GenerateBluetoothF5Keys(w, n1, n2, a1at, a1, a2at, a2) ==
    F5Keys(AES_128_CMAC, AES_128_CMAC_LsbFirstInput, w, n1, n2, a1at, a1, a2at, a2)
SecLib_VerifyBluetoothAh(key, r) == AhHash(AES_128_Encrypt, key, r)
===============================================================================
