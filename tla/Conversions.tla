----------------------------- MODULE Conversions -----------------------------
(***************************************************************************)
(* The conversions an application uses around its calls, one call at a     *)
(* time: amounts (Amounts), hexadecimal texts (HexCodec) and contract      *)
(* arguments (Abi). Every call is a function of its arguments; a state     *)
(* holds them and what it returns.                                         *)
(***************************************************************************)
EXTENDS Amounts, HexCodec

INSTANCE Abi

CONSTANTS Raus,      \* texts given to utils_rau2iotx
          Numbers,   \* texts given to str2u128
          Compared,  \* texts compared with each other
          Rooms,     \* sizes of the callers' buffers
          HexTexts,  \* texts given to signer_str2hex
          Contracts, \* iotex_st_contract_data as callers hand them in
          Binaries,  \* bytes given to signer_hex2str
          Inputs,    \* bytes given to abi_pack_publish
          Orders,    \* what getDeviceOrderByID returns, before it is encoded
          Replies    \* other replies: an offset, a length and how many bytes follow

(* A text is never empty, and of a reply any part may have any length.     *)
ASSUME CallsAssumption ==
    /\ Rooms \subseteq Nat
    /\ \A rau \in Raus : rau \in Seq(0..9) /\ rau # <<>>
(* Characters of a text are not the zero that ends it.                     *)
ASSUME TextsAssumption ==
    /\ HexTexts \subseteq Seq(1..255)
    /\ Numbers \subseteq Seq(0..Other) /\ Compared \subseteq Seq(0..Other)
    /\ \A c \in Contracts : c.data \in Seq(0..255) /\ c.size \in Nat
ASSUME InputsAssumption == \A input \in Inputs : input \in Seq(0..255)
ASSUME OrdersAssumption ==
    \A o \in Orders : /\ o.start \in Nat /\ o.duration \in Nat
                     /\ o.endpoint \in Seq(0..255) /\ o.token \in Seq(0..255)
ASSUME RepliesAssumption ==
    \A r \in Replies : r.offset \in Nat /\ r.length \in Nat /\ r.tail \in Nat

VARIABLES op, args, out

vars == <<op, args, out>>

-----------------------------------------------------------------------------
(* The contract encodes start, duration, endpoint and token of an order.   *)
AbiWord(n) == Zeros(Word - 4) \o SubSeq(BigEndian64(n), 5, 8)

AbiString(s) == AbiWord(Len(s)) \o s \o Zeros(Aligned(Len(s)) - Len(s))

EncodeOrder(o) ==
    AbiWord(o.start) \o AbiWord(o.duration)
    \o AbiWord(4 * Word) \o AbiWord(5 * Word + Aligned(Len(o.endpoint)))
    \o AbiString(o.endpoint) \o AbiString(o.token)

(* A reply with both offsets alike, a length behind the head, and a tail.  *)
EncodeReply(r) ==
    Zeros(2 * Word) \o AbiWord(r.offset) \o AbiWord(r.offset)
    \o AbiWord(r.length) \o Zeros(r.tail)

abi_get_order(host, input, memory) ==
    [ start    |-> abi_get_order_start(host, input),
      duration |-> abi_get_order_duration(host, input),
      endpoint |-> abi_get_order_endpoint(host, input, memory),
      token    |-> abi_get_order_token(host, input, memory) ]

-----------------------------------------------------------------------------
Init == op = "none" /\ args = <<>> /\ out = NULL

Call(name, arguments, result) ==
    op' = name /\ args' = arguments /\ out' = result

CallRau2Iotx ==
    /\ op = "none"
    /\ \E rau \in Raus, max \in Rooms :
           Call("rau2iotx", <<rau, max>>, utils_rau2iotx(rau, max))

(* Text to number and back. *)
CallU128 ==
    /\ op = "none"
    /\ \E str \in Numbers, max \in Rooms \ {0, 1} :
           Call("u128", <<str, max>>, u1282str(str2u128(str), max))

(* The same comparison and conversion in both builds. *)
CallCompare ==
    /\ op = "none"
    /\ \E a, b \in Compared :
           Call("compare", <<a, b>>,
                [ native |-> <<str2u128(a) = str2u128(b), u128_is_less(str2u128(a), str2u128(b)),
                               u1282str(str2u128(a), RawMaxLen)>>,
                  raw    |-> <<str2raw(a) = str2raw(b), raw_is_less(str2raw(a), str2raw(b)),
                               raw2str(str2raw(a), RawMaxLen)>> ])

CallHex2Str ==
    /\ op = "none"
    /\ \E hex \in Binaries, size \in Rooms :
           Call("hex2str", <<hex, size>>, signer_hex2str(hex, size))

(* The same text converted in place and into a buffer of its own.          *)
CallStr2Hex ==
    /\ op = "none"
    /\ \E text \in HexTexts, size \in Rooms :
           /\ size <= Len(text)
           /\ Call("str2hex", <<text, size>>,
                   [ inPlace |-> signer_str2hex(text, Len(text), 0, size),
                     apart   |-> signer_str2hex(text \o Zeros(size), Len(text), Len(text), size) ])

CallReadContract ==
    /\ op = "none"
    /\ \E text \in HexTexts, contract \in Contracts :
           Call("read_contract", <<text, contract>>, read_contract(contract, text))

CallPublish ==
    /\ op = "none"
    /\ \E host \in Endian, input \in Inputs, memory \in BOOLEAN :
           Call("publish", <<host, input, memory>>, abi_pack_publish(host, input, memory))

CallGetOrder ==
    /\ op = "none"
    /\ \E host \in Endian, o \in Orders, memory \in BOOLEAN :
       \E size \in 0..Len(EncodeOrder(o)) :
           Call("order", <<host, o, size, memory>>,
                abi_get_order(host, SubSeq(EncodeOrder(o), 1, size), memory))

CallGetReply ==
    /\ op = "none"
    /\ \E host \in Endian, r \in Replies :
           Call("reply", <<host, r>>, abi_get_order(host, EncodeReply(r), TRUE))

Return == op # "none" /\ op' = "none" /\ args' = <<>> /\ out' = NULL

Next ==
    \/ CallRau2Iotx \/ CallU128 \/ CallCompare
    \/ CallHex2Str \/ CallStr2Hex \/ CallReadContract
    \/ CallPublish \/ CallGetOrder \/ CallGetReply
    \/ Return

Spec == Init /\ [][Next]_vars

-----------------------------------------------------------------------------
Canonical(str) == IsDigits(str) /\ str # <<>> /\ (str[1] = 0 => Len(str) = 1)

(* What a decimal text stands for: its nonzero digits with their weights,  *)
(* the last digit before the point having the weight unit.                 *)
PointIn(text) ==
    IF Contains(text, Point) THEN CHOOSE i \in 1..Len(text) : text[i] = Point ELSE Len(text) + 1

Weight(p, i, unit) == IF i < p THEN unit + (p - 1 - i) ELSE unit - (i - p)

Denoted(text, unit) ==
    { <<Weight(PointIn(text), i, unit), text[i]>> :
          i \in { j \in 1..Len(text) : text[j] \in 1..9 } }

SameAmount == Denoted(out.text, TransformFactor) = Denoted(args[1], 0)

(* The iotx text stands for exactly the rau it was made from: no digit is  *)
(* lost or moved by padding, point and trimming, but for amounts of        *)
(* exactly TransformFactor digits, which utils.c:28 writes without point.  *)
(* Nothing is written behind the caller's buffer before it is trimmed.     *)
RauKept ==
    op = "rau2iotx" /\ out # NULL =>
        /\ Canonical(args[1]) /\ Len(args[1]) # TransformFactor => SameAmount
        /\ out.written <= args[2]

(* The number that the first n digits of str are. *)
Decimal(str) ==
    LET u[n \in 0..Len(str)] == IF n = 0 THEN 0 ELSE u[n - 1] * 10 + str[n] IN u

PlainValue(str) == Decimal(str)[Len(str)]

(* A number of the type survives str2u128 and u1282str; a text that is no  *)
(* number becomes 0, and a buffer without room for the terminating zero is *)
(* refused.                                                                *)
NumberKept ==
    op = "u128" =>
        LET str == IF IsDigits(args[1]) THEN args[1] ELSE <<0>>
        IN  Canonical(str) /\ PlainValue(str) < Modulus
                => out = IF Len(str) < args[2] THEN str ELSE NULL

(* The two builds of u128.c agree on order, equality and text of all       *)
(* canonical numbers, which one keeps as integers and the other as texts.  *)
BuildsAgree ==
    op = "compare" /\ (\A k \in {1, 2} : Canonical(args[k]) /\ PlainValue(args[k]) < Modulus)
        => out.native = out.raw

(* Overwriting the text it reads changes neither the verdict nor the bytes *)
(* of signer_str2hex: no digit is read after its place has been written.   *)
InPlaceAgrees ==
    op = "str2hex" =>
        /\ out.inPlace.ret = out.apart.ret
        /\ \A i \in 1..out.apart.ret :
               out.inPlace.mem[i] = out.apart.mem[Len(args[1]) + i]

IsHexText(text) == \A i \in 1..Len(text) : text[i] \in { hexmap(d) : d \in 0..15 }

(* The contract data a caller gets, in place and by the size reported, is  *)
(* the one the server encoded: every pair of digits is one byte of it,     *)
(* whatever an earlier reply has left in the buffer (parse.c:92, 93). The  *)
(* text must leave room for a zero, or have one behind it in size:         *)
(* iotex_emb.c:170 looks for one, and nobody writes it.                    *)
ContractBytesWhole ==
    op = "read_contract" /\ IsHexText(args[1]) /\ Len(args[1]) % 2 = 0 =>
        LET room == Len(args[2].data)
        IN  Len(args[1]) < room \/ (Len(args[1]) = room /\ args[2].size = 0) =>
                /\ out.ret = 0
                /\ signer_hex2str(SubSeq(out.data, 1, out.size), Len(args[1])).str = args[1]

(* The contract finds in published data, behind the four bytes of the      *)
(* signature, one argument of whole words: an offset, and there the input  *)
(* with its length, zeros behind it. On either kind of machine. A reader   *)
(* with lengths of 16 bits (abi_read_contract.c) finds all shorter inputs. *)
PublishReadable ==
    op = "publish" /\ out # NULL =>
        LET body == SubSeq(out, 5, Len(out))
            n    == Len(args[2])
        IN  /\ Len(body) % Word = 0 /\ Len(body) < n + 3 * Word
            /\ SubSeq(body, 1, Word) = AbiWord(Word)
            /\ SubSeq(body, Word + 1, 2 * Word) = AbiWord(n)
            /\ n < 256 * 256 => StringAt("big", body, Word, TRUE).value = args[2]
            /\ \A i \in (2 * Word + n + 1)..Len(body) : body[i] = 0

(* From any prefix of an encoded order each part is either read as it was  *)
(* encoded or refused, and it is refused only if the prefix lacks bytes of *)
(* it or there is no memory for a copy. Offsets and lengths are read as    *)
(* numbers of 16 bits.                                                     *)
FitsSixteenBits(o) ==
    /\ 5 * Word + Aligned(Len(o.endpoint)) < 256 * 256
    /\ Len(o.token) < 256 * 256

OrderReadBack ==
    op = "order" /\ FitsSixteenBits(args[2]) =>
        LET o == args[2]
            endpointEnd == 5 * Word + Len(o.endpoint)
            tokenEnd    == 6 * Word + Aligned(Len(o.endpoint)) + Len(o.token)
            Expect(end, v) == IF args[3] >= end THEN v ELSE NULL
            Copied(end, v) == IF args[4] THEN Expect(end, v) ELSE NULL
        IN  /\ out.start.value    = Expect(Word, BigEndian64(o.start))
            /\ out.duration.value = Expect(2 * Word, SubSeq(BigEndian64(o.duration), 5, 8))
            /\ out.endpoint.value = Copied(endpointEnd, o.endpoint)
            /\ out.token.value    = Copied(tokenEnd, o.token)

(* No part is read beyond the reply, whatever offset and length it claims. *)
ReadsInsideReply ==
    op = "reply" =>
        \A part \in DOMAIN out : out[part].reach <= Len(EncodeReply(args[2]))

=============================================================================
