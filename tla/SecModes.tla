------------------------------- MODULE SecModes -------------------------------
(***************************************************************************)
(* Two devices, each with one of SecLib's back ends, exchange a message    *)
(* encrypted in one of the modes of operation: the sender encrypts it in   *)
(* chunks of its choosing and the receiver decrypts what has come in       *)
(* chunks of its own, each passing the initialisation vector or counter of *)
(* a call on to the next one, as the functions leave it. They also compute *)
(* the same authentication tags and keys.                                  *)
(*                                                                         *)
(* The application (external) keeps to the lengths its back end takes      *)
(* where it would ignore others: whole blocks, and a shorter last chunk    *)
(* where CTR allows it. CBC refuses other lengths.                         *)
(***************************************************************************)
EXTENDS SecBlock, FiniteSets

CONSTANTS RoundLimit,  \* see SecLibSw
          Messages,    \* the messages, sequences of bytes
          Keys,        \* the keys, blocks
          Vectors      \* initialisation vectors and first counters, blocks

VARIABLES mode, tx, rx,   \* the mode and the back ends of the two devices
          key, iv0, msg,  \* what they have agreed on, and the message
          taken, sent, ivTx,  \* what is encrypted: bytes of msg, the text, the IV now
          read, got, ivRx,    \* what is decrypted: bytes of sent, the message, the IV now
          tags            \* the last tag or key: its kind, what each has computed, what is right
vars == <<mode, tx, rx, key, iv0, msg, taken, sent, ivTx, read, got, ivRx, tags>>

Sw   == INSTANCE SecLibSw
Mbed == INSTANCE SecLibMbed
Sss  == INSTANCE SecLibSss
------------------------------------------------------------------------------
(* The AES functions of SecLib_psa.c, over the PSA interface (external),   *)
(* which refuses a message that is not made of whole blocks.               *)
AES_128_Encrypt(in, k) == Enc(k, in)
AES_128_Decrypt(in, k) == Dec(k, in)

AES_128_ECB_Encrypt(in, k) ==
    IF Len(in) % BlockBytes # 0 THEN <<>>
    ELSE FlattenSeq([i \in 1 .. Len(in) \div BlockBytes |-> Enc(k, Pieces(in)[i])])

AES_128_ECB_Decrypt(in, k) ==
    IF Len(in) % BlockBytes # 0 THEN <<>>
    ELSE FlattenSeq([i \in 1 .. Len(in) \div BlockBytes |-> Dec(k, Pieces(in)[i])])

AES_128_CMAC(in, k) == CmacTag(k, in)

(* One reversed block of the input, from its end, for each update.         *)
AES_128_CMAC_LsbFirstInput(in, k) ==
    LET Update(r, i) ==
          LET n == IF r.left < BlockBytes THEN r.left ELSE BlockBytes
          IN  [left |-> r.left - n,
               text |-> r.text \o MemCpyReverseOrder(SubSeq(in, r.left - n + 1, r.left))]
    IN  CmacTag(k, FoldLeft(Update, [left |-> Len(in), text |-> <<>>],
                              [i \in 1 .. Len(Pieces(in)) |-> i]).text)

(* The interface takes and gives the text with the tag behind it, in one   *)
(* buffer.                                                                 *)
AES_128_CCM(in, auth, nonce, k, tag, decrypt) ==
    LET Aead(buff) == LET n == Len(buff) - BlockBytes
                      IN  Ccm(SubSeq(buff, 1, n), auth, nonce, k, SubSeq(buff, n + 1, Len(buff)), TRUE)
        r    == Ccm(in, auth, nonce, k, tag, FALSE)
        buff == r.out \o r.iv
    IN  IF decrypt THEN Aead(in \o tag)
        ELSE Written(SubSeq(buff, 1, Len(in)), SubSeq(buff, Len(in) + 1, Len(buff)))

SecLib_GenerateBluetoothF5Keys(w, n1, n2, a1at, a1, a2at, a2) ==
    F5Keys(AES_128_CMAC, AES_128_CMAC_LsbFirstInput, w, n1, n2, a1at, a1, a2at, a2)
SecLib_VerifyBluetoothAh(k, r) == AhHash(AES_128_Encrypt, k, r)
------------------------------------------------------------------------------

Backends == {"sw", "mbed", "sss", "psa"}
Modes == {"ecb", "cbc", "pad", "ctr", "ofb"}
(* psa has no mode but ECB.                                                *)
Has(b, m) == b # "psa" \/ m = "ecb"

Encrypt(b, in, iv) ==
    CASE mode = "ecb" -> Written(CASE b = "sw"   -> Sw!AES_128_ECB_Encrypt(in, key)
                                   [] b = "mbed" -> Mbed!AES_128_ECB_Encrypt(in, key)
                                   [] b = "sss"  -> Sss!AES_128_ECB_Encrypt(in, key)
                                   [] b = "psa"  -> AES_128_ECB_Encrypt(in, key), iv)
      [] mode = "cbc" -> (CASE b = "sw"   -> Sw!AES_128_CBC_Encrypt(in, iv, key)
                            [] b = "mbed" -> Mbed!AES_128_CBC_Encrypt(in, iv, key)
                            [] b = "sss"  -> Sss!AES_128_CBC_Encrypt(in, iv, key))
      [] mode = "pad" -> (CASE b = "sw"   -> Sw!AES_128_CBC_Encrypt_And_Pad(in, iv, key)
                            [] b = "mbed" -> Mbed!AES_128_CBC_Encrypt_And_Pad(in, iv, key)
                            [] b = "sss"  -> Sss!AES_128_CBC_Encrypt_And_Pad(in, iv, key))
      [] mode = "ctr" -> (CASE b = "sw"   -> Sw!AES_128_CTR(in, iv, key)
                            [] b = "mbed" -> Mbed!AES_128_CTR(in, iv, key)
                            [] b = "sss"  -> Sss!AES_128_CTR(in, iv, key))
      [] mode = "ofb" -> Written(CASE b = "sw"   -> Sw!AES_128_OFB(in, iv, key)
                                   [] b = "mbed" -> Mbed!AES_128_OFB(in, iv, key)
                                   [] b = "sss"  -> Sss!AES_128_OFB(in, iv, key), iv)

(* CTR and OFB decrypt as they encrypt; ECB has a function of its own only *)
(* with psa, elsewhere the blocks are decrypted one by one.                *)
Decrypt(b, in, iv) ==
    CASE mode = "ecb" -> Written(CASE b = "sw"   -> Sw!AES_128_Decrypt(in, key)
                                   [] b = "mbed" -> Mbed!AES_128_Decrypt(in, key)
                                   [] b = "sss"  -> Sss!AES_128_Decrypt(in, key)
                                   [] b = "psa"  -> AES_128_ECB_Decrypt(in, key), iv)
      [] mode = "cbc" -> (CASE b = "sw"   -> Sw!AES_128_CBC_Decrypt(in, iv, key)
                            [] b = "mbed" -> Mbed!AES_128_CBC_Decrypt(in, iv, key)
                            [] b = "sss"  -> Sss!AES_128_CBC_Decrypt(in, iv, key))
      [] mode = "pad" -> (CASE b = "sw"   -> Sw!AES_128_CBC_Decrypt_And_Depad(in, iv, key)
                            [] b = "mbed" -> Mbed!AES_128_CBC_Decrypt_And_Depad(in, iv, key)
                            [] b = "sss"  -> Sss!AES_128_CBC_Decrypt_And_Depad(in, iv, key))
      [] OTHER -> Encrypt(b, in, iv)

(* The lengths n, of the rest bytes there are, that b takes in this mode.  *)
(* OFB and padding are for a whole message.                                *)
Takes(b, n, rest) ==
    CASE mode = "ctr" -> n % BlockBytes = 0 \/ (b # "mbed" /\ n = rest)
      [] mode = "ofb" -> n = rest /\ (b = "sw" \/ n % BlockBytes = 0)
      [] mode = "pad" -> n = rest
      [] mode = "cbc" -> TRUE
      [] OTHER -> n % BlockBytes = 0

Init ==
    /\ mode \in Modes /\ tx \in Backends /\ rx \in Backends /\ Has(tx, mode) /\ Has(rx, mode)
    /\ key \in Keys /\ iv0 \in Vectors /\ msg \in Messages
    /\ taken = 0 /\ sent = <<>> /\ ivTx = iv0
    /\ read = 0 /\ got = <<>> /\ ivRx = iv0
    /\ tags = <<>>

Send(n) ==
    /\ Takes(tx, n, Len(msg) - taken)
    /\ \E r \in {Encrypt(tx, SubSeq(msg, taken + 1, taken + n), ivTx)} :
         IF r.ok THEN taken' = taken + n /\ sent' = sent \o r.out /\ ivTx' = r.iv
                 ELSE UNCHANGED <<taken, sent, ivTx>>
    /\ UNCHANGED <<mode, tx, rx, key, iv0, msg, read, got, ivRx, tags>>

Receive(n) ==
    /\ Takes(rx, n, Len(sent) - read)
    /\ mode = "ecb" /\ rx # "psa" => n = BlockBytes
    /\ mode \in {"ctr", "ofb", "pad"} => taken = Len(msg)
    /\ \E r \in {Decrypt(rx, SubSeq(sent, read + 1, read + n), ivRx)} :
         IF r.ok THEN read' = read + n /\ got' = got \o r.out /\ ivRx' = r.iv
                 ELSE UNCHANGED <<read, got, ivRx>>
    /\ UNCHANGED <<mode, tx, rx, key, iv0, msg, taken, sent, ivTx, tags>>

Cmac(b, in) == CASE b = "sw"   -> Sw!AES_128_CMAC(in, key)
                 [] b = "mbed" -> Mbed!AES_128_CMAC(in, key)
                 [] b = "sss"  -> Sss!AES_128_CMAC(in, key)
                 [] b = "psa"  -> AES_128_CMAC(in, key)
CmacLsb(b, in) == CASE b = "sw"   -> Sw!AES_128_CMAC_LsbFirstInput(in, key)
                    [] b = "mbed" -> Mbed!AES_128_CMAC_LsbFirstInput(in, key)
                    [] b = "sss"  -> Sss!AES_128_CMAC_LsbFirstInput(in, key)
                    [] b = "psa"  -> AES_128_CMAC_LsbFirstInput(in, key)
Prf(b, in, k) == CASE b = "sw"   -> Sw!AES_CMAC_PRF_128(in, k)
                   [] b = "mbed" -> Mbed!AES_CMAC_PRF_128(in, k)
                   [] b = "sss"  -> Sss!AES_CMAC_PRF_128(in, k)
F5(b, w, n1, n2, a1, a2) ==
    CASE b = "sw"   -> Sw!SecLib_GenerateBluetoothF5Keys(w, n1, n2, 0, a1, 1, a2)
      [] b = "mbed" -> Mbed!SecLib_GenerateBluetoothF5Keys(w, n1, n2, 0, a1, 1, a2)
      [] b = "sss"  -> Sss!SecLib_GenerateBluetoothF5Keys(w, n1, n2, 0, a1, 1, a2)
      [] b = "psa"  -> SecLib_GenerateBluetoothF5Keys(w, n1, n2, 0, a1, 1, a2)
Ah(b, r) == CASE b = "sw"   -> Sw!SecLib_VerifyBluetoothAh(key, r)
              [] b = "mbed" -> Mbed!SecLib_VerifyBluetoothAh(key, r)
              [] b = "sss"  -> Sss!SecLib_VerifyBluetoothAh(key, r)
              [] b = "psa"  -> SecLib_VerifyBluetoothAh(key, r)
Seal(b, in, nonce) == CASE b = "sw"   -> Sw!AES_128_EAX_Encrypt(in, nonce, msg, key)
                        [] b = "mbed" -> Mbed!AES_128_EAX_Encrypt(in, nonce, msg, key)
                        [] b = "sss"  -> Sss!AES_128_EAX_Encrypt(in, nonce, msg, key)
Open(b, in, nonce, t) == CASE b = "sw"   -> Sw!AES_128_EAX_Decrypt(in, nonce, msg, key, t)
                           [] b = "mbed" -> Mbed!AES_128_EAX_Decrypt(in, nonce, msg, key, t)
                           [] b = "sss"  -> Sss!AES_128_EAX_Decrypt(in, nonce, msg, key, t)

Ccmode(b, in, nonce, t, d) == CASE b = "sw"   -> Sw!AES_128_CCM(in, msg, nonce, key, t, d)
                                [] b = "mbed" -> Mbed!AES_128_CCM(in, msg, nonce, key, t, d)
                                [] b = "sss"  -> Sss!AES_128_CCM(in, msg, nonce, key, t, d)
                                [] b = "psa"  -> AES_128_CCM(in, msg, nonce, key, t, d)

Idle == taken = 0 /\ mode = "ecb" /\ tags = <<>>    \* apart from the exchange of a message
Note(kind, made, found, want) ==
    /\ Idle
    /\ tags' = <<kind, made, found, want>>
    /\ UNCHANGED <<mode, tx, rx, key, iv0, msg, taken, sent, ivTx, read, got, ivRx>>
(* made: what each back end computes.                                      *)
Compute(kind, made, want) ==
    Idle /\ \E m \in {made} : Note(kind, m[tx], m[rx], want)

Authenticate == Compute("cmac", [b \in {tx, rx} |-> Cmac(b, msg)], CmacTag(key, msg))
AuthenticateLsb == Compute("lsb", [b \in {tx, rx} |-> CmacLsb(b, msg)], CmacTag(key, Reverse(msg)))
Derive == /\ tx # "psa" /\ rx # "psa"
          /\ \E k \in Messages \cup Keys :
               k # <<>> /\ Compute("prf", [b \in {tx, rx} |-> Prf(b, msg, k)], PrfTag(k, msg))

(* LE secure connections: both sides derive the keys from the two nonces   *)
(* and addresses, the initiator's first.                                   *)
Pair == \E w \in Messages : /\ Len(w) = 2 * BlockBytes
                            /\ \E k \in {[b \in {tx, rx} |-> F5(b, w, iv0, key, <<1>>, <<2>>)]} :
                                 Note("f5", k[tx], k[rx], k[tx])

(* The address one side has made with its key is resolved by the other.    *)
Resolve == \E r \in Byte : Compute("ah", [b \in {tx, rx} |-> Ah(b, <<r>>)],
                                   SubSeq(Reverse(Enc(Reverse(key), Digits(r))), 1, 1))

(* EAX with the message as its own header; a byte of the text is changed   *)
(* on the way (flip > 0) or not. Only a nonce of a whole block, see        *)
(* EaxSealed and EaxOpened.                                                *)
Tampered(out, flip, d) == IF flip = 0 THEN out ELSE [out EXCEPT ![flip] = ByteXor[@][d]]
Protect ==
    /\ Idle /\ tx # "psa" /\ rx # "psa" /\ Len(msg) > 0
    /\ "mbed" \in {tx, rx} => Len(msg) % BlockBytes = 0
    /\ \E s \in {Seal(tx, msg, iv0)}, flip \in 0 .. Len(msg) :
         \E o \in {Open(rx, Tampered(s.out, flip, 1), iv0, s.tag)} :
             Note("eax", <<o.ok>> \o o.out, IF flip = 0 THEN <<TRUE>> \o msg ELSE <<FALSE>>,
                     <<o.ok>> \o o.out)

(* The same with CCM, which every back end has.                            *)
ProtectCcm ==
    /\ Idle /\ Len(msg) > 0
    /\ \E s \in {Ccmode(tx, msg, iv0, Zero, FALSE)}, flip \in 0 .. Len(msg) :
         \E o \in {Ccmode(rx, Tampered(s.out, flip, 1), iv0, s.iv, TRUE)} :
             Note("ccm", <<o.ok>> \o o.out, IF flip = 0 THEN <<TRUE>> \o msg ELSE <<FALSE>>,
                     <<o.ok>> \o o.out)

Next ==
    \/ \E n \in 1 .. Len(msg) - taken : Send(n)
    \/ \E n \in 1 .. Len(sent) - read : Receive(n)
    \/ Authenticate \/ AuthenticateLsb \/ Derive \/ Pair \/ Resolve
    \/ Protect \/ ProtectCcm

Spec == Init /\ [][Next]_vars
-----------------------------------------------------------------------------
TypeOK ==
    /\ mode \in Modes /\ tx \in Backends /\ rx \in Backends
    /\ taken \in 0 .. Len(msg) /\ read \in 0 .. Len(sent)
    /\ ivTx \in Blocks /\ ivRx \in Blocks
    /\ \A i \in DOMAIN sent : sent[i] \in Byte

(* What the receiver has decrypted is the beginning of the message, and    *)
(* all of it once everything is sent and received, whatever the back ends  *)
(* and the chunks of the two.                                              *)
MessageArrives ==
    /\ IsPrefix(got, msg)
    /\ taken = Len(msg) /\ read = Len(sent) => got = msg

(* What is sent in chunks is the text of the whole message.                *)
ChunksAsWhole ==
    CASE mode = "cbc" -> taken > 0 => sent = CbcText(key, iv0, SubSeq(msg, 1, taken))
      [] mode = "ctr" -> taken > 0 => sent = CtrText(key, iv0, SubSeq(msg, 1, taken))
      [] mode = "ofb" -> taken > 0 => sent = OfbText(key, iv0, SubSeq(msg, 1, taken))
      [] OTHER -> TRUE

(* The two sides agree on tags, derived keys and addresses, which are      *)
(* those of the standard; an altered text is not accepted.                 *)
TagsAgree == tags # <<>> => tags[2] = tags[3] /\ tags[2] = tags[4]
===============================================================================
