--------------------------------- MODULE Nonce ---------------------------------
(***************************************************************************)
(* The deterministic nonces of src/crypto/rfc6979.c and hmac_drbg.c.  A    *)
(* signing seeds the generator with the private key and the digest it      *)
(* signs, and asks it for one candidate after the other until one is good  *)
(* (ecdsa.c:676). The generator keeps the HMAC key as the two states that  *)
(* processing its pads leaves, and the padding of every message of one     *)
(* block in place.                                                         *)
(***************************************************************************)
EXTENDS Sha256

CONSTANTS Plans,       \* what a signing is given, and the lengths it may ask for
          MaxSignings  \* signings one after the other

VARIABLES drbg,      \* the generator, and below
          signings   \* not in the program: each signing's plan and what it got

vars == <<drbg, signings>>

-----------------------------------------------------------------------------
(* A context has the two digests of the HMAC key, V with its padding, the  *)
(* local array h of update_k, the bytes generated, what sha256_Transform   *)
(* was asked and what it answered last.                                    *)
FirstBit   == <<Byte(128), Byte(0), Byte(0), Byte(0)>>   \* 0x80000000
BehindByte == <<Byte(0), Byte(128), Byte(0), Byte(0)>>   \* 0x00800000, a zero byte first
ZeroWord   == Word(0)

(* The first and the last word behind a digest: the padding of a message   *)
(* of so many bytes.                                                       *)
PadWith(words, bit, bytes) == [words EXCEPT ![9] = bit, ![16] = Word(8 * bytes)]

PadBlock(words) == PadWith(words, FirstBit, SHA256_BLOCK_LENGTH + SHA256_DIGEST_LENGTH)
PadByte(words)  == PadWith(words, BehindByte, SHA256_BLOCK_LENGTH + SHA256_DIGEST_LENGTH + 1)

Digest(words) == SubSeq(words, 1, 8)

Behind(words) == SubSeq(words, 9, 16)

XoredWords(words, n) == [i \in 1..Len(words) |-> Xored(words[i], n)]

(* Where the answer of sha256_Transform goes. *)
ToV(c)    == [c EXCEPT !.v = c.answer \o Behind(@)]
ToH(c)    == [c EXCEPT !.h = c.answer \o Behind(@)]
ToIdig(c) == [c EXCEPT !.idig = c.answer]
ToOdig(c) == [c EXCEPT !.odig = c.answer]

(* The inner and the outer digest of a key of one block. *)
Precomputed(c, pad36, pad5c) ==
    ToOdig(sha256_Transform(ToIdig(sha256_Transform(c, sha256_initial_hash_value, pad36)),
                            sha256_initial_hash_value, pad5c))

(* The first hash of the HMAC of V || domain || data1 || data2: nothing    *)
(* behind V and a zero byte, which is padded in place,                     *)
HashInPlace(c) ==
    ToH(sha256_Transform([c EXCEPT !.v = PadBlock(@)], c.idig, PadByte(c.v)))

(* or data, by the buffering of sha2.c. *)
NewContext(c, domain) ==
    [state    |-> c.idig,
     buffer   |-> Memory(REVERSE32(Digest(c.v))) \o <<Byte(domain)>> \o Bytes(Uninitialized, 31),
     bitcount |-> (SHA256_BLOCK_LENGTH + SHA256_DIGEST_LENGTH + 1) * 8,
     asked    |-> c.asked,
     answer   |-> << >>]

TakeDigest(c, final) ==
    [c EXCEPT !.asked = final.asked, !.h = REVERSE32(Words(final.digest)) \o Behind(@)]

HashData(c, domain, data1, data2) ==
    TakeDigest(c, sha256_Final(sha256_Update(sha256_Update(NewContext(c, domain), data1), data2)))

InnerHash(c, domain, data1, data2) ==
    IF data1 \o data2 = << >> THEN HashInPlace(c) ELSE HashData(c, domain, data1, data2)

OuterHash(c) == ToH(sha256_Transform(c, c.odig, PadBlock(c.h)))

(* The new key is the digest and zeros; h is cleared.                      *)
Rekeyed(c) ==
    LET key == Digest(c.h) \o Repeat(ZeroWord, 8)
    IN  [Precomputed(c, XoredWords(key, 54), XoredWords(key, 92)) EXCEPT !.h = << >>]

(* K = HMAC(K, V || domain || data1 || data2), kept as its two digests.    *)
update_k(c, domain, data1, data2) ==
    Rekeyed(OuterHash(InnerHash([c EXCEPT !.h = Repeat(ZeroWord, 16)], domain, data1, data2)))

(* V = HMAC(K, V), each hash in place before its padding.                  *)
InnerV(c) == ToV(sha256_Transform(c, c.idig, c.v))
OuterV(c) == ToV(sha256_Transform(c, c.odig, c.v))

update_v(c) == OuterV(InnerV(c))

Round(c, domain, entropy, addin) == update_v(update_k(c, domain, entropy, addin))

SecondRound(c, entropy, addin) ==
    IF entropy = << >> THEN c ELSE Round(c, 1, entropy, addin)

(* Mutant: the additional input is not used.                               *)
hmac_drbg_reseed_alone(c, entropy, addin) ==
    SecondRound(Round(c, 0, entropy, << >>), entropy, << >>)

(* Entropy makes it two rounds. *)
hmac_drbg_reseed(c, entropy, addin) ==
    SecondRound(Round(c, 0, entropy, addin), entropy, addin)

(* From K = 0x00 ... 0x00 and V = 0x01 ... 0x01. *)
hmac_drbg_init(c, entropy, nonce) ==
    LET words(n) == Repeat(Repeat(Byte(n), 4), 16)
        first    == Words(Repeat(Byte(1), SHA256_DIGEST_LENGTH)) \o Repeat(ZeroWord, 8)
    IN  hmac_drbg_reseed([Precomputed(c, words(54), words(92)) EXCEPT !.v = PadBlock(first)],
                         entropy, nonce)

Collected(c) == [c EXCEPT !.buf = @ \o FlattenSeq(Digest(c.v))]

CutTo(c, len) == [c EXCEPT !.buf = SubSeq(@, 1, len)]

(* As many rounds as len needs, of which the last may be cut, and then the *)
(* key and V change.                                                       *)
hmac_drbg_generate(c, len) ==
    LET n == (len + SHA256_DIGEST_LENGTH - 1) \div SHA256_DIGEST_LENGTH
    IN  Round(CutTo(FoldLeft(LAMBDA g, i : Collected(update_v(g)),
                             [c EXCEPT !.buf = << >>], [i \in 1..n |-> i]), len),
              0, << >>, << >>)

-----------------------------------------------------------------------------
Init ==
    /\ drbg = [asked |-> << >>, answer |-> << >>, idig |-> << >>, odig |-> << >>,
               v |-> << >>, h |-> << >>, buf |-> << >>]
    /\ signings = << >>

Current == signings[Len(signings)]

(* init_rfc6979, with 32 bytes of each. *)
Seed(plan) ==
    /\ Len(signings) < MaxSignings
    /\ signings # << >> => Current.got # << >>
    /\ drbg' = hmac_drbg_init(drbg, Bytes(plan.key, plan.keyLen), Bytes(plan.hash, plan.hashLen))
    /\ signings' = Append(signings, [plan |-> plan, got |-> << >>])

(* generate_rfc6979, with 32 bytes. *)
Generate ==
    /\ signings # << >>
    /\ Len(Current.got) < Len(Current.plan.lengths)
    /\ drbg' = hmac_drbg_generate(drbg, Current.plan.lengths[Len(Current.got) + 1])
    /\ signings' = [signings EXCEPT ![Len(signings)].got = Append(@, drbg'.buf)]

Next == (\E plan \in Plans : Seed(plan)) \/ Generate

Spec == Init /\ [][Next]_vars

-----------------------------------------------------------------------------
(* HMAC-SHA256 and HMAC_DRBG as their standards define them, on bytes. A   *)
(* block the code has not asked for has an answer the code has not got.    *)
Standard(state, block) ==
    LET hits == { n \in 1..Len(drbg.asked) : drbg.asked[n] = <<state, block>> }
    IN  State(IF hits = {} THEN 0 ELSE CHOOSE n \in hits : TRUE)

Padded(msg) ==
    msg \o <<Byte(128)>> \o Zeroed((55 - Len(msg)) % 64) \o ZeroWord \o Word(8 * Len(msg))

WordsOf(bytes) == [i \in 1..(Len(bytes) \div 4) |-> SubSeq(bytes, 4 * i - 3, 4 * i)]

SHA256(msg) ==
    LET words == WordsOf(Padded(msg))
    IN  FlattenSeq(FoldLeft(LAMBDA state, i : Standard(state, SubSeq(words, 16 * i - 15, 16 * i)),
                            sha256_initial_hash_value, [i \in 1..(Len(words) \div 16) |-> i]))

HMAC(key, msg) ==
    LET block == key \o Zeroed(32)
    IN  SHA256(Xored(block, 92) \o SHA256(Xored(block, 54) \o msg))

Updated(s, data) ==
    LET key1 == HMAC(s.key, s.v \o <<Byte(0)>> \o data)
        v1   == HMAC(key1, s.v)
        key2 == HMAC(key1, v1 \o <<Byte(1)>> \o data)
    IN  IF data = << >> THEN [key |-> key1, v |-> v1, out |-> s.out]
        ELSE [key |-> key2, v |-> HMAC(key2, v1), out |-> s.out]

Generated(s, len) ==
    LET rounds == FoldLeft(LAMBDA r, i : LET v == HMAC(s.key, r.v)
                                         IN  [v |-> v, buf |-> r.buf \o v],
                           [v |-> s.v, buf |-> << >>], [i \in 1..((len + 31) \div 32) |-> i])
    IN  Updated([key |-> s.key, v |-> rounds.v,
                 out |-> Append(s.out, SubSeq(rounds.buf, 1, len))], << >>)

HMAC_DRBG(plan, n) ==
    FoldLeft(LAMBDA s, i : Generated(s, plan.lengths[i]),
             Updated([key |-> Zeroed(32), v |-> Repeat(Byte(1), 32), out |-> << >>],
                     Bytes(plan.key, plan.keyLen) \o Bytes(plan.hash, plan.hashLen)),
             [i \in 1..n |-> i]).out

(* What the generator gives is what HMAC_DRBG gives, with any lengths, and *)
(* with 32 bytes of a key and a digest, the candidates of RFC 6979: no     *)
(* padding that is left in place or in a reused buffer, byte order or      *)
(* precomputed pad differs from hashing every message from its beginning.  *)
GeneratesByTheStandard ==
    signings # << >> => Current.got = HMAC_DRBG(Current.plan, Len(Current.got))

Nonces ==
    UNION { { <<n, i>> : i \in 1..Len(signings[n].got) } :
                n \in { m \in 1..Len(signings) : ToSet(signings[m].plan.lengths) = {32} } }

Seeded(n) == LET p == signings[n].plan IN <<p.key, p.keyLen, p.hash, p.hashLen>>

(* A key signs no two digests with the same nonce, a rejected candidate    *)
(* does not come again, and the same key and digest get the same nonces    *)
(* again, whatever was signed in between.                                  *)
NoncesDiffer ==
    \A a, b \in Nonces :
        signings[a[1]].got[a[2]] = signings[b[1]].got[b[2]]
            <=> Seeded(a[1]) = Seeded(b[1]) /\ a[2] = b[2]

===============================================================================
