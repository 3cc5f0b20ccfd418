-------------------------------- MODULE PbPack --------------------------------
(***************************************************************************)
(* The protobuf encoder of src/pb_pack.c. An item has a type, a field      *)
(* number, data (NULL for an optional field left out) and a length: of     *)
(* bytes, or of items for an embedded message. Packing gives its return    *)
(* value and the bytes it has put into the buffer; an embedded message's   *)
(* data is the function that gives this for every room it may be packed in.*)
(*                                                                         *)
(* A size is a size_t; a negative one stands for the number it wraps to,   *)
(* which is larger than any buffer.                                        *)
(***************************************************************************)
EXTENDS Integers, Sequences

CONSTANT NULL

(* What packing gives: the return value and the bytes.                     *)
Packing == [ret : Int, bytes : Seq(Nat)]

ASSUME NullAssumption == NULL \notin Nat \cup Seq(Nat) \cup [Int -> Packing]

PB_WT_VARINT == 0
PB_WT_64     == 1
PB_WT_LD     == 2
PB_WT_32     == 5
PB_WT_EMB    == 130

PB_MAX_TYPE    == PB_WT_32
PB_VARINT_MASK == 127
PB_VARINT_MORE == 128

PB_ERR_WTYPE  == 1
PB_ERR_ENCBUF == 4

PB_GET_WTYPE(type) == type % 8
IS_EMB_MSG(type)   == PB_GET_WTYPE(type) = PB_WT_LD /\ type >= 128

-----------------------------------------------------------------------------
Digits128[v \in Nat] == IF v < 128 THEN <<v>> ELSE <<v % 128>> \o Digits128[v \div 128]

(* At most size bytes, all but the last with PB_VARINT_MORE; none for 0.   *)
pb_pack_varint(v, size) ==
    LET digits == IF v = 0 \/ size <= 0 THEN <<>>
                  ELSE SubSeq(Digits128[v], 1, IF Len(Digits128[v]) < size THEN Len(Digits128[v]) ELSE size)
    IN  [i \in 1..Len(digits) |->
            IF i < Len(digits) THEN digits[i] + PB_VARINT_MORE ELSE digits[i]]

(* One byte is written whatever the room. *)
pb_encode_varint(v, size) == IF v <= PB_VARINT_MASK THEN <<v>> ELSE pb_pack_varint(v, size)

(* An 8-bit field number is never reserved or too large; 0 is refused.     *)
pb_encode_header(size, type, field) ==
    LET key == field * 8 + PB_GET_WTYPE(type)
    IN  IF field = 0 THEN NULL
        ELSE IF key < PB_VARINT_MASK THEN <<key>>
        ELSE pb_pack_varint(key, size)

pb_pack_fixed(item, width, size) == IF size \in 0..(width - 1) THEN NULL ELSE item.data

(* The bytes are copied without a look at the room.                        *)
pb_pack_ld(item, size) ==
    pb_encode_varint(item.length, size) \o SubSeq(item.data, 1, item.length)

(* encode of __encoder, NULL where it fails. *)
Encoded(item, size) ==
    CASE PB_GET_WTYPE(item.type) = PB_WT_VARINT -> pb_pack_varint(item.data, size)
      [] PB_GET_WTYPE(item.type) = PB_WT_64     -> pb_pack_fixed(item, 8, size)
      [] PB_GET_WTYPE(item.type) = PB_WT_32     -> pb_pack_fixed(item, 4, size)
      [] PB_GET_WTYPE(item.type) = PB_WT_LD     -> pb_pack_ld(item, size)

HasEncoder(type) == PB_GET_WTYPE(type) \in {PB_WT_VARINT, PB_WT_64, PB_WT_LD, PB_WT_32}

-----------------------------------------------------------------------------
Failed(code) == [ret |-> -code, bytes |-> <<>>]

(* Mutant: an item may fill the buffer to its last byte.                   *)
ExtendedToTheEnd(run, bytes, size) ==
    LET all == run.bytes \o bytes
    IN  IF size >= 0 /\ Len(all) > size THEN Failed(PB_ERR_ENCBUF)
        ELSE [ret |-> Len(all), bytes |-> all]

(* Packed bytes go behind those already there; at least one byte of the    *)
(* buffer must stay free.                                                  *)
Extended(run, bytes, size) ==
    LET all == run.bytes \o bytes
    IN  IF size >= 0 /\ Len(all) >= size THEN Failed(PB_ERR_ENCBUF)
        ELSE [ret |-> Len(all), bytes |-> all]

PackPlain(run, item, header, size) ==
    LET value == Encoded(item, size - Len(run.bytes) - Len(header))
    IN  IF value = NULL THEN Failed(PB_ERR_ENCBUF) ELSE Extended(run, header \o value, size)

(* Mutant: the byte reserved for the length is never widened.              *)
PackedEmbeddedNarrow(run, header, inner, size) ==
    IF inner.ret < 0 THEN inner
    ELSE Extended(run, header \o <<inner.ret % 256>> \o inner.bytes, size)

(* An embedded message is packed one byte behind its header; a length of   *)
(* more than one byte moves it.                                            *)
PackedEmbedded(run, header, inner, size) ==
    IF inner.ret < 0 THEN inner
    ELSE Extended(run, header \o pb_encode_varint(inner.ret, 8) \o inner.bytes, size)

Skipped(item) ==
    \/ ~ HasEncoder(item.type) \/ NULL = item.data
    \/ PB_GET_WTYPE(item.type) = PB_WT_VARINT /\ item.data = 0

PackItem(run, item, size) ==
    LET room   == size - Len(run.bytes)
        header == pb_encode_header(room, item.type, item.field)
    IN  IF run.ret < 0 THEN run
        ELSE IF PB_GET_WTYPE(item.type) > PB_MAX_TYPE THEN Failed(PB_ERR_WTYPE)
        ELSE IF Skipped(item) THEN run
        ELSE IF header = NULL \/ (IS_EMB_MSG(item.type) /\ header = <<>>) THEN Failed(PB_ERR_ENCBUF)
        ELSE IF IS_EMB_MSG(item.type)
        THEN PackedEmbedded(run, header, item.data[room - Len(header) - 1], size)
        ELSE PackPlain(run, item, header, size)

pb_pack(message, size) ==
    LET run[n \in 0..Len(message)] ==
            IF n = 0 THEN [ret |-> 0, bytes |-> <<>>]
            ELSE PackItem(run[n - 1], message[n], size)
    IN  run[Len(message)]

=============================================================================
