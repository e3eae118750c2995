------------------------------- MODULE SecHash --------------------------------
(***************************************************************************)
(* The digests and message authentication codes of SecLib: a caller        *)
(* allocates contexts, starts them, feeds them text in pieces, copies one  *)
(* to another half-way and finishes both with different texts. alg is the  *)
(* algorithm of a behaviour and backend the file SecLib is built from.     *)
(***************************************************************************)
EXTENDS Integers, Sequences, FiniteSets

CONSTANTS BlockSize, DigestSize, LengthLimit, MaxHashed,  \* see SecHashSw
          MaxContexts,  \* contexts the memory manager has room for
          MaxPieces,  \* bound: pieces of text fed to contexts
          Pieces,     \* the pieces, sequences of units
          Keys        \* the keys of HMAC, sequences of units

VARIABLES alg, backend,
          ctx,      \* ctx[c]: the context, <<>> before it is allocated
          open,     \* open[c]: started and not yet finished
          key, text,   \* what each context was started with and fed, for the properties
          pieces,   \* how many pieces were fed
          out       \* the last digest and the one there should be, or nothing
vars == <<alg, backend, ctx, open, key, text, pieces, out>>

Sw == INSTANCE SecHashSw
-----------------------------------------------------------------------------
(* The digests of SecLib_mbedTLS.c and of SecLib_sss.c, which differ in    *)
(* the context of an HMAC only: HMAC_SHA256_Finish leaves it, or frees it. *)
(* The library (external) keeps what it needs of the text; a context it    *)
(* has freed takes no more of it.                                          *)
LibAllocated == [live |-> FALSE, key |-> <<>>, text |-> <<>>]
LibStarted(k) == [live |-> TRUE, key |-> k, text |-> <<>>]
LibFed(c, data) == IF c.live THEN [c EXCEPT !.text = @ \o data] ELSE c

(* There is no SHA-1 in the secure subsystem.                              *)
SHA1_Init(c) == LibStarted(<<>>)
SHA1_HashUpdate(c, data) == LibFed(c, data)
SHA1_HashFinish(c) == [out |-> Sw!HashOf("sha1", c.text), ctx |-> LibAllocated]
SHA1_Hash(data) == Sw!HashOf("sha1", data)

SHA256_Init(c) == LibStarted(<<>>)
SHA256_HashUpdate(c, data) == LibFed(c, data)
SHA256_HashFinish(c) == [out |-> Sw!HashOf("sha256", c.text), ctx |-> LibAllocated]
SHA256_Hash(data) == Sw!HashOf("sha256", data)

HMAC_SHA256_Init(c, k) == LibStarted(k)
HMAC_SHA256_Update(c, data) == LibFed(c, data)
HMAC_SHA256_Finish(c) ==
    [out |-> Sw!HmacOf("sha256", c.key, c.text), ctx |-> IF backend = "sss" THEN c ELSE LibAllocated]
HMAC_SHA256(k, data) == Sw!HmacOf("sha256", k, data)
-----------------------------------------------------------------------------
Context == 1 .. 2
Keyed == {"hmac_sha256", "hmac_mmo"}
Built == {<<"sha1", "sw">>, <<"sha256", "sw">>, <<"hmac_sha256", "sw">>, <<"mmo", "sw">>, <<"hmac_mmo", "sw">>,
          <<"sha1", "mbed">>, <<"sha256", "mbed">>, <<"hmac_sha256", "mbed">>,
          <<"sha256", "sss">>, <<"hmac_sha256", "sss">>}

Allocated == CASE backend = "sw" -> (IF alg \in Keyed THEN Sw!AllocatedHmac ELSE Sw!Allocated)
               [] OTHER -> LibAllocated

Started(c, k) ==
    CASE backend = "sw"   -> (CASE alg = "sha1"   -> Sw!SHA1_Init(c)
                                [] alg = "sha256" -> Sw!SHA256_Init(c)
                                [] alg = "mmo"    -> Sw!AES_MMO_Init(c)
                                [] alg = "hmac_mmo" -> Sw!HMAC_AES_MMO_Init(c, k)
                                [] alg = "hmac_sha256" -> Sw!HMAC_SHA256_Init(c, k))
      [] OTHER          -> (CASE alg = "sha1"   -> SHA1_Init(c)
                                [] alg = "sha256" -> SHA256_Init(c)
                                [] alg = "hmac_sha256" -> HMAC_SHA256_Init(c, k))

Updated(c, d) ==
    CASE backend = "sw"   -> (CASE alg = "sha1"   -> Sw!SHA1_HashUpdate(c, d)
                                [] alg = "sha256" -> Sw!SHA256_HashUpdate(c, d)
                                [] alg = "mmo"    -> Sw!AES_MMO_HashUpdate(c, d)
                                [] alg = "hmac_mmo" -> Sw!HMAC_AES_MMO_Update(c, d)
                                [] alg = "hmac_sha256" -> Sw!HMAC_SHA256_Update(c, d))
      [] OTHER          -> (CASE alg = "sha1"   -> SHA1_HashUpdate(c, d)
                                [] alg = "sha256" -> SHA256_HashUpdate(c, d)
                                [] alg = "hmac_sha256" -> HMAC_SHA256_Update(c, d))

Finished(c) ==
    CASE backend = "sw"   -> (CASE alg = "sha1"   -> Sw!SHA1_HashFinish(c)
                                [] alg = "sha256" -> Sw!SHA256_HashFinish(c)
                                [] alg = "mmo"    -> Sw!AES_MMO_HashFinish(c)
                                [] alg = "hmac_mmo" -> Sw!HMAC_AES_MMO_Finish(c)
                                [] alg = "hmac_sha256" -> Sw!HMAC_SHA256_Finish(c))
      [] OTHER          -> (CASE alg = "sha1"   -> SHA1_HashFinish(c)
                                [] alg = "sha256" -> SHA256_HashFinish(c)
                                [] alg = "hmac_sha256" -> HMAC_SHA256_Finish(c))

AtOnce(k, d) ==
    CASE backend = "sw"   -> (CASE alg = "sha1"   -> Sw!SHA1_Hash(d)
                                [] alg = "sha256" -> Sw!SHA256_Hash(d)
                                [] alg = "mmo"    -> Sw!AES_MMO_Hash(d)
                                [] alg = "hmac_mmo" -> Sw!HMAC_AES_MMO(k, d)
                                [] alg = "hmac_sha256" -> Sw!HMAC_SHA256(k, d))
      [] OTHER          -> (CASE alg = "sha1"   -> SHA1_Hash(d)
                                [] alg = "sha256" -> SHA256_Hash(d)
                                [] alg = "hmac_sha256" -> HMAC_SHA256(k, d))

Standard(k, d) == CASE alg = "hmac_sha256" -> Sw!HmacOf("sha256", k, d)
                    [] alg = "hmac_mmo"    -> Sw!HmacOf("mmo", k, d)
                    [] OTHER -> Sw!HashOf(alg, d)

KeysOf == IF alg \in Keyed THEN Keys ELSE {<<>>}

Init ==
    /\ \E b \in Built : alg = b[1] /\ backend = b[2]
    /\ ctx = [c \in Context |-> <<>>] /\ open = [c \in Context |-> FALSE]
    /\ key = [c \in Context |-> <<>>] /\ text = [c \in Context |-> <<>>]
    /\ pieces = 0 /\ out = <<>>

(* AllocCtx, which may find no memory, and FreeCtx.                        *)
AllocCtx(c) ==
    /\ ctx[c] = <<>> /\ Cardinality({d \in Context : ctx[d] # <<>>}) < MaxContexts
    /\ ctx' = [ctx EXCEPT ![c] = Allocated]
    /\ UNCHANGED <<alg, backend, open, key, text, pieces, out>>

FreeCtx(c) ==
    /\ ctx[c] # <<>> /\ out # <<>>    \* bound: contexts are freed after a digest
    /\ ctx' = [ctx EXCEPT ![c] = <<>>] /\ open' = [open EXCEPT ![c] = FALSE]
    /\ key' = [key EXCEPT ![c] = <<>>] /\ text' = [text EXCEPT ![c] = <<>>]
    /\ out' = <<>> /\ UNCHANGED <<alg, backend, pieces>>

Start(c, k) ==
    /\ ctx[c] # <<>> /\ k \in KeysOf
    /\ \E x \in {Started(ctx[c], k)} : ctx' = [ctx EXCEPT ![c] = x]
    /\ open' = [open EXCEPT ![c] = TRUE]
    /\ key' = [key EXCEPT ![c] = k] /\ text' = [text EXCEPT ![c] = <<>>]
    /\ out' = <<>> /\ UNCHANGED <<alg, backend, pieces>>

Feed(c, d) ==
    /\ open[c] /\ pieces < MaxPieces
    /\ \E x \in {Updated(ctx[c], d)} : ctx' = [ctx EXCEPT ![c] = x]
    /\ text' = [text EXCEPT ![c] = @ \o d] /\ pieces' = pieces + 1
    /\ out' = <<>> /\ UNCHANGED <<alg, backend, open, key>>

(* There is none for HMAC.                                                 *)
CloneCtx(d, s) ==
    /\ alg \notin Keyed /\ ctx[d] # <<>> /\ ctx[s] # <<>> /\ d # s
    /\ ctx' = [ctx EXCEPT ![d] = ctx[s]] /\ open' = [open EXCEPT ![d] = open[s]]
    /\ key' = [key EXCEPT ![d] = key[s]] /\ text' = [text EXCEPT ![d] = text[s]]
    /\ out' = <<>> /\ UNCHANGED <<alg, backend, pieces>>

End(c) ==
    /\ open[c]
    /\ \E r \in {Finished(ctx[c])} :
         /\ ctx' = [ctx EXCEPT ![c] = r.ctx]
         /\ out' = <<r.out, Standard(key[c], text[c]), Len(key[c]), Len(text[c])>>
    /\ open' = [open EXCEPT ![c] = FALSE]
    /\ key' = [key EXCEPT ![c] = <<>>] /\ text' = [text EXCEPT ![c] = <<>>]
    /\ UNCHANGED <<alg, backend, pieces>>

HashAtOnce(k, d) ==
    /\ k \in KeysOf /\ pieces = 0 /\ out = <<>>
    /\ out' = <<AtOnce(k, d), Standard(k, d), Len(k), Len(d)>>
    /\ UNCHANGED <<alg, backend, ctx, open, key, text, pieces>>

Next ==
    \/ \E c \in Context : AllocCtx(c) \/ FreeCtx(c) \/ End(c)
    \/ \E k \in KeysOf : Start(1, k)    \* bound: the other one is started by a copy
    \/ \E c \in Context, d \in Pieces : Feed(c, d)
    \/ \E c, d \in Context : CloneCtx(c, d)
    \/ \E k \in KeysOf, d \in Pieces : HashAtOnce(k, d)

Spec == Init /\ [][Next]_vars
-----------------------------------------------------------------------------
TypeOK ==
    /\ <<alg, backend>> \in Built /\ pieces \in 0 .. MaxPieces
    /\ open \in [Context -> BOOLEAN]
    /\ \A c \in Context : open[c] => ctx[c] # <<>>

(* A digest is that of the text, and key, its context has been given since *)
(* it was started or copied, whatever the pieces and whichever back end,   *)
(* as long as lengths do not reach the limits of the counters.             *)
Counted == out[4] * 8 < LengthLimit
Hashed == alg \in {"mmo", "hmac_mmo"} => out[3] < MaxHashed /\ out[4] + BlockSize < MaxHashed
DigestsAgree == out # <<>> /\ Counted /\ Hashed => out[1] = out[2]
===============================================================================
