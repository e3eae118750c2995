------------------------------ MODULE SecLibMbed ------------------------------
(***************************************************************************)
(* The AES functions of SecLib_mbedTLS.c. The modes are those of mbedTLS   *)
(* (external); what is passed to them, what is refused and what is written *)
(* back is SecLib's.                                                       *)
(***************************************************************************)
EXTENDS SecBlock

AES_128_Encrypt(in, key) == Enc(key, in)
AES_128_Decrypt(in, key) == Dec(key, in)

(* A length that is not a multiple of the block is ignored, without a word *)
(* to the caller.                                                          *)
AES_128_ECB_Encrypt(in, key) ==
    IF Ragged(in) THEN <<>>
    ELSE FlattenSeq([i \in 1 .. Len(Pieces(in)) |-> AES_128_Encrypt(Pieces(in)[i], key)])

AES_128_CBC_Encrypt(in, iv, key) ==
    LET out == CbcText(key, iv, in)
    IN  IF Ragged(in) THEN Refused(iv)
        ELSE Written(out, SubSeq(out, Len(in) - BlockBytes + 1, Len(in)))

(* Mutant: the IV of the next call is that of this one.                    *)
CbcDecryptKeepsIv(in, iv, key) ==
    LET p == Pieces(iv \o in)
    IN  IF Ragged(in) THEN Refused(iv)
        ELSE Written(FlattenSeq([i \in 1 .. Len(p) - 1 |->
                         XorSeq(AES_128_Decrypt(p[i + 1], key), p[i])]), iv)

AES_128_CBC_Decrypt(in, iv, key) ==
    LET p == Pieces(iv \o in)
    IN  IF Ragged(in) THEN Refused(iv)
        ELSE Written(FlattenSeq([i \in 1 .. Len(p) - 1 |->
                         XorSeq(AES_128_Decrypt(p[i + 1], key), p[i])]),
                     SubSeq(in, Len(in) - BlockBytes + 1, Len(in)))

AES_128_CBC_Encrypt_And_Pad(in, iv, key) == CbcPadded(AES_128_CBC_Encrypt, in, iv, key)
AES_128_CBC_Decrypt_And_Depad(in, iv, key) == CbcDepadded(AES_128_CBC_Decrypt, in, iv, key)

(* Here too only whole blocks; the library moves the counter on.           *)
AES_128_CTR(in, ctr, key) ==
    IF Ragged(in) THEN Refused(ctr)
    ELSE Written(CtrText(key, ctr, in), Digits((Number(ctr) + Len(Pieces(in))) % BlockCount))

AES_128_OFB(in, iv, key) ==
    LET Step(r, b) == LET o == AES_128_Encrypt(r.iv, key)
                      IN  Written(r.out \o SecLib_XorN(o, b, BlockBytes), o)
    IN  IF Ragged(in) THEN <<>> ELSE FoldLeft(Step, Written(<<>>, iv), Pieces(in)).out

AES_128_CMAC(in, key) == CmacTag(key, in)

(* The input from its end, one reversed block after the other, to the CMAC *)
(* of the library; what is left at the start is shorter.                   *)
AES_128_CMAC_LsbFirstInput(in, key) ==
    LET Block(i) == MemCpyReverseOrder(SubSeq(in, IF Len(in) < i * BlockBytes THEN 1
                                                  ELSE Len(in) - i * BlockBytes + 1,
                                              Len(in) - (i - 1) * BlockBytes))
    IN  CmacTag(key, FlattenSeq([i \in 1 .. Len(Pieces(in)) |-> Block(i)]))

AES_CMAC_PRF_128(in, varKey) == PrfTag(varKey, in)

AES_128_EAX_Encrypt(in, nonce, header, key) ==
    EaxSealed(AES_128_CMAC, AES_128_CTR, in, nonce, header, key)
AES_128_EAX_Decrypt(in, nonce, header, key, tag) ==
    EaxOpened(AES_128_CMAC, AES_128_CTR, in, nonce, header, key, tag)
AES_128_CCM(in, auth, nonce, key, tag, decrypt) == Ccm(in, auth, nonce, key, tag, decrypt)

SecLib_GenerateBluetoothF5Keys(w, n1, n2, a1at, a1, a2at, a2) ==
    F5Keys(AES_128_CMAC, AES_128_CMAC_LsbFirstInput, w, n1, n2, a1at, a1, a2at, a2)
SecLib_VerifyBluetoothAh(key, r) == AhHash(AES_128_Encrypt, key, r)
===============================================================================
