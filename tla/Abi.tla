---------------------------------- MODULE Abi ----------------------------------
(***************************************************************************)
(* abi_pack_publish of src/abi_pack.c and the abi_get_order functions of   *)
(* src/abi_read_contract.c on sequences of bytes. What a read beyond the   *)
(* input finds is left open: reach is how far a call has read.             *)
(***************************************************************************)
EXTENDS Naturals, Sequences, SequencesExt

CONSTANT NULL

Word == 32

Zeros(n) == [i \in 1..n |-> 0]

Aligned(size) == ((size + Word - 1) \div Word) * Word

(* A number below 2^32 as the last eight bytes of a word.                  *)
BigEndian64(n) ==
    LET high == n \div (256 * 256)
    IN  Zeros(4) \o << (high \div 256) % 256, high % 256, (n \div 256) % 256, n % 256 >>

(* Endianness of the machine. Loading a number and swapping it where the   *)
(* machine is little-endian gives its bytes in the order of the input.     *)
Endian == {"big", "little"}

endian_is_bigendian(host) == host = "big"

(* The bytes of a number as this machine keeps them in memory.             *)
InMemory(host, bytes) == IF endian_is_bigendian(host) THEN bytes ELSE Reverse(bytes)

endian_swap(bytes) == Reverse(bytes)

(* Mutant: the swap is forgotten. *)
HostToBigUnswapped(host, n) == InMemory(host, BigEndian64(n))

(* bigSize, whose bytes are copied as they stand in memory.                *)
HostToBig(host, n) ==
    LET stored == InMemory(host, BigEndian64(n))
    IN  IF endian_is_bigendian(host) THEN stored ELSE endian_swap(stored)

PublishSignature == <<127, 210, 131, 70>>

(* memory says whether malloc succeeds, here and below.                    *)
abi_pack_publish(host, input, memory) ==
    LET size == Len(input)
    IN  IF ~ memory THEN NULL
        ELSE PublishSignature
             \o Zeros(Word - 1) \o <<Word>>
             \o Zeros(Word - 8) \o HostToBig(host, size)
             \o input \o Zeros(Aligned(size) - size)

-----------------------------------------------------------------------------
(* The input's bytes lo..hi, counted from 0; 0 stands for whatever is      *)
(* found behind its end.                                                   *)
Bytes(input, lo, hi) ==
    [k \in 1..(hi - lo + 1) |-> IF lo + k <= Len(input) THEN input[lo + k] ELSE 0]

(* A number of the machine from those bytes, most significant byte first,  *)
(* after the swap.                                                         *)
Loaded(host, bytes) ==
    LET number == IF endian_is_bigendian(host) THEN bytes ELSE Reverse(bytes)
    IN  IF endian_is_bigendian(host) THEN number ELSE endian_swap(number)

U16(bytes) == bytes[1] * 256 + bytes[2]

Failed(reach) == [value |-> NULL, reach |-> reach]

abi_get_order_start(host, input) ==
    IF Len(input) < 32 THEN Failed(0)
    ELSE [value |-> Loaded(host, Bytes(input, 24, 31)), reach |-> 32]

abi_get_order_duration(host, input) ==
    IF Len(input) < 64 THEN Failed(0)
    ELSE [value |-> Loaded(host, Bytes(input, 60, 63)), reach |-> 64]

(* Mutant: the bytes in front of the string do not count. *)
StringBytesShort(input, start, length, memory) ==
    IF Len(input) < start \/ Len(input) < length \/ ~ memory THEN Failed(start)
    ELSE [value |-> Bytes(input, start, start + length - 1), reach |-> start + length]

(* The string's bytes, if the input has them all.                          *)
StringBytes(input, start, length, memory) ==
    IF Len(input) < start + length \/ ~ memory THEN Failed(start)
    ELSE [value |-> Bytes(input, start, start + length - 1), reach |-> start + length]

(* Mutant: the word of the length is read without a check. *)
StringUnchecked(host, input, offset, memory) ==
    StringBytes(input, offset + 32,
                U16(Loaded(host, Bytes(input, offset + 30, offset + 31))), memory)

(* A string at offset: a word with its length, then its bytes. Both are    *)
(* read as 16-bit numbers, and offset + 32 + length does not wrap.         *)
StringAt(host, input, offset, memory) ==
    IF Len(input) < offset + 32 THEN Failed(0)
    ELSE StringBytes(input, offset + 32, U16(Loaded(host, Bytes(input, offset + 30, offset + 31))), memory)

abi_get_order_endpoint(host, input, memory) ==
    IF Len(input) < 96 THEN Failed(0)
    ELSE StringAt(host, input, U16(Loaded(host, Bytes(input, 94, 95))), memory)

abi_get_order_token(host, input, memory) ==
    IF Len(input) < 128 THEN Failed(0)
    ELSE StringAt(host, input, U16(Loaded(host, Bytes(input, 126, 127))), memory)

=============================================================================
