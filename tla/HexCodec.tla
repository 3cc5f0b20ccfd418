------------------------------- MODULE HexCodec -------------------------------
(***************************************************************************)
(* signer_hex2str and signer_str2hex of src/signer.c. A character is its   *)
(* code, a byte its value, and str2hex works in a memory of bytes, for     *)
(* iotex_emb_read_contract_by_addr lets it overwrite the text it reads.    *)
(***************************************************************************)
EXTENDS Naturals, Integers, Sequences

CodeOf == [zero |-> 48, nine |-> 57, A |-> 65, Z |-> 90, a |-> 97, x |-> 120, z |-> 122]

(* What the code takes a character for, -1 if it is no digit. Letters      *)
(* beyond f are digits too, and every capital letter has the same value.   *)
value(c) ==
    CASE c \in CodeOf.zero..CodeOf.nine -> c - CodeOf.zero
      [] c \in CodeOf.a..CodeOf.z       -> c - CodeOf.a + 10
      [] c \in CodeOf.A..CodeOf.Z       -> CodeOf.A + 10
      [] OTHER                          -> -1

hexmap(d) == IF d < 10 THEN CodeOf.zero + d ELSE CodeOf.a + d - 10

(* No terminating zero is written. *)
signer_hex2str(hex, str_size) ==
    IF str_size < 2 * Len(hex) THEN [ret |-> -1, str |-> <<>>]
    ELSE [ret |-> 2 * Len(hex),
          str |-> [i \in 1..(2 * Len(hex)) |->
                      IF i % 2 = 1 THEN hexmap(hex[(i + 1) \div 2] \div 16)
                      ELSE hexmap(hex[i \div 2] % 16)]]

-----------------------------------------------------------------------------
(* Of the memory mem, indexed from 1, the first len bytes are the text, and*)
(* the bytes go to hexAt + 1, hexAt + 2, ...                               *)
Prefixed(mem, len) == len >= 2 /\ mem[1] = CodeOf.zero /\ mem[2] = CodeOf.x

Stored(run, hexAt, byte) ==
    [ret |-> run.ret + 1, mem |-> [run.mem EXCEPT ![hexAt + run.ret + 1] = byte]]

Rejected(run) == [run EXCEPT !.ret = -1]

(* The lowest byte of a | b. *)
OrByte(a, b) ==
    LET Bit(w) == IF (a \div w) % 2 = 1 \/ (b \div w) % 2 = 1 THEN w ELSE 0
    IN  Bit(1) + Bit(2) + Bit(4) + Bit(8) + Bit(16) + Bit(32) + Bit(64) + Bit(128)

(* One round of the loop: the digit at it and the one behind it, if any.   *)
Convert(run, it, len, hexAt) ==
    LET high == value(run.mem[it])
    IN  IF high = -1 THEN Rejected(run)
        ELSE IF it = len THEN Stored(run, hexAt, high)
        ELSE LET low == value(run.mem[it + 1])
             IN  IF low = -1 THEN Rejected(run)
                 ELSE Stored(run, hexAt, OrByte(high * 16, low))

StrRoom(size, len) == size >= (len + 1) \div 2

(* The n-th round, which a rejected text does not reach.                   *)
Round(before, n, first, len, hexAt) ==
    IF before.ret = -1 THEN before
    ELSE Convert(before, first + 2 * (n - 1), len, hexAt)

(* What n rounds have made of mem. *)
Converted(mem, first, len, hexAt) ==
    LET run[n \in Nat] ==
            IF n = 0 THEN [ret |-> 0, mem |-> mem]
            ELSE Round(run[n - 1], n, first, len, hexAt)
    IN  run

ConvertAll(mem, len, hexAt) ==
    LET first == IF Prefixed(mem, len) THEN 3 ELSE 1
    IN  Converted(mem, first, len, hexAt)[(len - first + 2) \div 2]

(* Mutant: the output is cleared first, as a caller of its own buffer may. *)
signer_str2hex_cleared(mem, len, hexAt, size) ==
    IF ~ StrRoom(size, len) THEN [ret |-> -1, mem |-> mem]
    ELSE ConvertAll([i \in DOMAIN mem |-> IF i \in (hexAt + 1)..(hexAt + size) THEN 0 ELSE mem[i]],
                    len, hexAt)

signer_str2hex(mem, len, hexAt, size) ==
    IF ~ StrRoom(size, len) THEN [ret |-> -1, mem |-> mem]
    ELSE ConvertAll(mem, len, hexAt)

-----------------------------------------------------------------------------
(* Mutant: the text is copied without clearing the buffer before.          *)
ReceivedOver(data, text) ==
    [i \in DOMAIN data |-> IF i <= Len(text) THEN text[i] ELSE data[i]]

(* A JSON string in a buffer, cut where that ends, zeros behind it.        *)
Received(data, text) == [i \in DOMAIN data |-> IF i <= Len(text) THEN text[i] ELSE 0]

strlen(mem) == (CHOOSE i \in DOMAIN mem : mem[i] = 0 /\ \A j \in 1..(i - 1) : mem[j] # 0) - 1

(* A caller's iotex_st_contract_data in memory: behind data come the bytes *)
(* of size, the least significant first, of which the last ones are zero.  *)
ContractBytes(data, size) == data \o <<size % 256, size \div 256, 0>>

(* iotex_emb_read_contract_by_addr: the reply's text becomes its bytes, in *)
(* a structure that holds what an earlier call or nobody has put there.    *)
read_contract(contract, text) ==
    LET mem  == ContractBytes(Received(contract.data, text), contract.size)
        len  == strlen(mem)
        size == len \div 2
        run  == signer_str2hex(mem, len, 0, size)
    IN  IF run.ret < 0 THEN [ret |-> run.ret, size |-> contract.size, data |-> run.mem]
        ELSE [ret |-> 0, size |-> size, data |-> run.mem]

=============================================================================
