----------------------------- MODULE SignedAction -----------------------------
(***************************************************************************)
(* proto_gen_tx_action and proto_gen_ex_action of src/pb_proto.c: from a   *)
(* transfer or an execution to the bytes that are sent. The private key's  *)
(* text becomes bytes (HexCodec), the action's core is packed (PbPack),    *)
(* hashed (Keccak) and signed (Ecdsa), and core, public key and signature  *)
(* are packed over it.                                                     *)
(*                                                                         *)
(* A request has id (ACT_TRANSFER or ACT_EXECUTION), version, nonce,       *)
(* gasLimit and chainID (numbers), gasPrice, amount, to and data (bytes);  *)
(* each may be NULL. privateKey is a text. What Keccak's permutation makes *)
(* of the bytes absorbed is any digest.                                    *)
(***************************************************************************)
EXTENDS HexCodec, PbPack, Ecdsa, Keccak

CONSTANTS Calls,        \* requests, each with max_size, the room of the caller's buffer
          Digests       \* what 32 bytes of digest may be

VARIABLES pc,
          call,         \* the request and max_size
          act_core,     \* the result of the first pb_pack, over which the second one writes
          hashed,       \* what the digest signed was taken from
          result        \* of proto_gen_action

vars == <<pc, call, act_core, hashed, result, ecdsaVars>>

SIG_PRIVATE_KEY_SIZE == 32

ACT_TRANSFER  == 10
ACT_EXECUTION == 12

AC_VERSION   == 1
AC_NONCE     == 2
AC_GAS_LIMIT == 3
AC_GAS_PRICE == 4
AC_CHAIN_ID  == 5

ACTION_CORE       == 1
ACTION_SND_PUBKEY == 2
ACTION_SIGNATURE  == 3

-----------------------------------------------------------------------------
VarintItem(field, data) == [type |-> PB_WT_VARINT, field |-> field, data |-> data, length |-> 0]

(* The length of an item is a uint8_t. *)
BytesItem(field, data) ==
    [ type |-> PB_WT_LD, field |-> field, data |-> data,
      length |-> IF data = NULL THEN 0 ELSE Len(data) % 256 ]

MessageItem(field, items) ==
    [ type |-> PB_WT_EMB, field |-> field, data |-> [size \in Int |-> pb_pack(items, size)],
      length |-> Len(items) ]

(* tx_msg and ex_msg number their fields alike. *)
ActionItems(req) == <<BytesItem(1, req.amount), BytesItem(2, req.to), BytesItem(3, req.data)>>

CoreItems(req) ==
    << VarintItem(AC_VERSION, req.version), VarintItem(AC_NONCE, req.nonce),
       VarintItem(AC_GAS_LIMIT, req.gasLimit), BytesItem(AC_GAS_PRICE, req.gasPrice),
       VarintItem(AC_CHAIN_ID, req.chainID), MessageItem(req.id, ActionItems(req)) >>

SignedItems(req, public_key, signature) ==
    << MessageItem(ACTION_CORE, CoreItems(req)),
       BytesItem(ACTION_SND_PUBKEY, public_key), BytesItem(ACTION_SIGNATURE, signature) >>

(* bn_write_be and bn_read_be: what is left of a number in front of each   *)
(* of its bytes, and the number the bytes are of.                          *)
Left(n) == LET left[i \in 0..32] == IF i = 32 THEN n ELSE left[i + 1] \div 256 IN left

Word32(n) == LET left == Left(n) IN [i \in 1..32 |-> left[i] % 256]

NumberOf(bytes) ==
    LET number[n \in 0..Len(bytes)] ==
            IF n = 0 THEN 0 ELSE (256 * number[n - 1] + bytes[n]) % (WordMax + 1)
    IN  number[Len(bytes)]

public_key65(priv) ==
    LET Q == scalar_multiply[priv] IN <<4>> \o Word32(Q[1]) \o Word32(Q[2])

SignatureBytes(sg) == Word32(sg.r) \o Word32(sg.s) \o <<sg.by>>

(* The text of the key, followed by the room for its bytes.                *)
KeyBytes(text) ==
    LET run == signer_str2hex(text \o Word32(0), Len(text), Len(text), SIG_PRIVATE_KEY_SIZE)
    IN  [ret |-> run.ret, bytes |-> SubSeq(run.mem, Len(text) + 1, Len(text) + 32)]

(* What a caller may ask for: numbers of 64 bits, which are at most ten    *)
(* digits of seven, and bytes; a key that is one is a scalar of the curve. *)
(* A coordinate, a scalar and a digest are numbers of 32 bytes.            *)
IsNumber(v) == v = NULL \/ (v \in Nat /\ Len(Digits128[v]) <= 10)

IsBytes(b) == b = NULL \/ b \in Seq(Byte)

ASSUME CallsAssumption ==
    /\ Left(WordMax)[0] = 0 /\ Prime <= WordMax + 1 /\ Order <= WordMax + 1
    /\ Digests \subseteq 0..WordMax
    /\ \A c \in Calls :
           /\ c.max_size \in Nat
           /\ c.req.id \in {ACT_TRANSFER, ACT_EXECUTION}
           /\ IsNumber(c.req.version) /\ IsNumber(c.req.nonce)
           /\ IsNumber(c.req.gasLimit) /\ IsNumber(c.req.chainID)
           /\ IsBytes(c.req.gasPrice) /\ IsBytes(c.req.amount)
           /\ IsBytes(c.req.to) /\ IsBytes(c.req.data)
           /\ KeyBytes(c.req.privateKey).ret = SIG_PRIVATE_KEY_SIZE =>
                  NumberOf(KeyBytes(c.req.privateKey).bytes) \in 1..(Order - 1)

(* The length of an item counts up to 255 bytes.                           *)
Counted(b) == b = NULL \/ Len(b) <= 255

ASSUME LengthsAssumption ==
    \A c \in Calls : /\ Counted(c.req.gasPrice) /\ Counted(c.req.amount)
                     /\ Counted(c.req.to) /\ Counted(c.req.data)

-----------------------------------------------------------------------------
NoCore == [ret |-> 0, bytes |-> <<>>]

Init ==
    /\ pc = "idle" /\ call \in Calls
    /\ act_core = NoCore /\ hashed = <<>> /\ result = NoCore
    /\ EcdsaInit

Return(res) == pc' = "done" /\ result' = res

PrivateKey == KeyBytes(call.req.privateKey)

(* A key of other than 32 bytes, or one that is no hexadecimal text.       *)
KeyRefused ==
    /\ pc = "idle" /\ PrivateKey.ret # SIG_PRIVATE_KEY_SIZE
    /\ Return(Failed(1))
    /\ UNCHANGED <<call, act_core, hashed, ecdsaVars>>

PackCore ==
    /\ pc = "idle" /\ PrivateKey.ret = SIG_PRIVATE_KEY_SIZE
    /\ act_core' = pb_pack(CoreItems(call.req), call.max_size)
    /\ IF act_core'.ret < 0 THEN Return(act_core') ELSE pc' = "packed" /\ UNCHANGED result
    /\ UNCHANGED <<call, hashed, ecdsaVars>>

(* signer_get_signature: the hash, and the beginning of ecdsa_sign_digest. *)
Hash ==
    /\ pc = "packed" /\ pc' = "signing"
    /\ \E aligned \in BOOLEAN : hashed' = keccak_256(act_core.bytes, aligned)
    /\ \E z \in Digests : Sign(NumberOf(PrivateKey.bytes), z)
    /\ UNCHANGED <<call, act_core, result>>

SignStep ==
    /\ pc = "signing" /\ EcdsaStep
    /\ UNCHANGED <<pc, call, act_core, hashed, result>>

NotSigned ==
    /\ pc = "signing" /\ signing = "failed"
    /\ Return(Failed(1))
    /\ UNCHANGED <<call, act_core, hashed, ecdsaVars>>

PackSigned ==
    /\ pc = "signing" /\ signing = "signed"
    /\ Return(pb_pack(SignedItems(call.req, public_key65(priv_key), SignatureBytes(sig)),
                      call.max_size))
    /\ UNCHANGED <<call, act_core, hashed, ecdsaVars>>

Done == pc = "done" /\ UNCHANGED vars

Next == KeyRefused \/ PackCore \/ Hash \/ SignStep \/ NotSigned \/ PackSigned \/ Done

Spec == Init /\ [][Next]_vars

-----------------------------------------------------------------------------
(* What a node reads, whatever bytes a message is made of: a varint at p   *)
(* and the place behind it, and the value a key has been given first.      *)
Varint(bytes) ==
    LET varint[p \in 1..(Len(bytes) + 1)] ==
            IF p > Len(bytes) THEN [number |-> 0, next |-> p]
            ELSE IF bytes[p] < 128 THEN [number |-> bytes[p], next |-> p + 1]
            ELSE LET more == varint[p + 1]
                 IN  [number |-> bytes[p] - 128 + 128 * more.number, next |-> more.next]
    IN  varint

Entry(bytes, p) ==
    LET key  == Varint(bytes)[p]
        val  == Varint(bytes)[key.next]
        last == IF val.next + val.number - 1 <= Len(bytes) THEN val.next + val.number - 1
                ELSE Len(bytes)
    IN  IF PB_GET_WTYPE(key.number) = PB_WT_VARINT
        THEN [key |-> key.number, value |-> val.number, next |-> val.next]
        ELSE [key |-> key.number, value |-> SubSeq(bytes, val.next, last), next |-> last + 1]

Lookup(entry, key, later) == IF entry.key = key THEN entry.value ELSE later[entry.next]

(* A field that is left out reads as zero, or as empty. *)
Read(bytes, key, default) ==
    LET from[p \in 1..(Len(bytes) + 1)] ==
            IF p > Len(bytes) THEN default ELSE Lookup(Entry(bytes, p), key, from)
    IN  from[1]

Number(bytes, field) == Read(bytes, 8 * field + PB_WT_VARINT, 0)
Bytes(bytes, field)  == Read(bytes, 8 * field + PB_WT_LD, <<>>)

OrDefault(given, default) == IF given = NULL THEN default ELSE given

Success == pc = "done" /\ result.ret >= 0

Sent == SubSeq(result.bytes, 1, result.ret)

SentKey ==
    LET bytes == Bytes(Sent, ACTION_SND_PUBKEY)
    IN  <<NumberOf(SubSeq(bytes, 2, 33)), NumberOf(SubSeq(bytes, 34, 65))>>

SentSignature ==
    LET bytes == Bytes(Sent, ACTION_SIGNATURE)
    IN  [ r |-> NumberOf(SubSeq(bytes, 1, 32)), s |-> NumberOf(SubSeq(bytes, 33, 64)),
          by |-> bytes[65] ]

-----------------------------------------------------------------------------
(* What was signed is what is sent: the digest was taken from the core a   *)
(* node reads in the action, although it has been packed a second time, in *)
(* another place and another room (proto_gen_action).                      *)
SignatureIsOfSentCore == Success => hashed = PaddedMessage(Bytes(Sent, ACTION_CORE))

(* The signature sent verifies with the public key sent.                   *)
SentActionVerifies == Success => Verifies(SentKey, digest, SentSignature)

(* A node that recovers the sender's key from signature and recovery byte  *)
(* finds the key sent, also where s was negated (ecdsa_sign_digest).       *)
SenderRecovered == Success => Recovered(digest, SentSignature) = SentKey

(* Every field of the request is read back as it was given, also behind    *)
(* embedded messages that grow past the length byte reserved for them.     *)
SentActionWhole ==
    Success =>
        LET core   == Bytes(Sent, ACTION_CORE)
            action == Bytes(core, call.req.id)
        IN  /\ Number(core, AC_VERSION)   = OrDefault(call.req.version, 0)
            /\ Number(core, AC_NONCE)     = OrDefault(call.req.nonce, 0)
            /\ Number(core, AC_GAS_LIMIT) = OrDefault(call.req.gasLimit, 0)
            /\ Bytes(core, AC_GAS_PRICE)  = OrDefault(call.req.gasPrice, <<>>)
            /\ Number(core, AC_CHAIN_ID)  = OrDefault(call.req.chainID, 0)
            /\ Bytes(action, 1)           = OrDefault(call.req.amount, <<>>)
            /\ Bytes(action, 2)           = OrDefault(call.req.to, <<>>)
            /\ Bytes(action, 3)           = OrDefault(call.req.data, <<>>)

Ample == 65536

(* The bytes the signed action takes. *)
NeededRoom(req) ==
    pb_pack(SignedItems(req, public_key65(1), SignatureBytes(NoSig)), Ample).ret

(* A buffer is refused if and only if the action would fill it: neither    *)
(* packing of the core, nor the byte reserved for a length, asks for more. *)
RefusedOnlyForRoom ==
    pc = "done" /\ PrivateKey.ret = SIG_PRIVATE_KEY_SIZE /\ signing # "failed" =>
        (result.ret = -PB_ERR_ENCBUF <=> call.max_size <= NeededRoom(call.req))

=============================================================================
