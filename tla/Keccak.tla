-------------------------------- MODULE Keccak --------------------------------
(***************************************************************************)
(* The Keccak contexts of src/crypto/sha3.c, which fill blocks and process *)
(* the full ones. The permutation of the state is not modelled: hash is    *)
(* the sequence of all bytes absorbed so far, which determines it.         *)
(***************************************************************************)
EXTENDS Integers, Sequences

CONSTANT BlockSize   \* 136 for keccak_256

ASSUME KeccakAssumption == BlockSize \in Nat \ {0}

Byte == 0..255

SHA3_FINALIZED == -1   \* in the place of rest, beyond every fill

Cleared == [hash |-> <<>>, message |-> [i \in 1..BlockSize |-> 0], rest |-> 0]

sha3_process_block(hash, block) == hash \o block

(* memcpy of data into the message block from place idx on.                *)
CopiedTo(message, idx, data) ==
    [i \in 1..BlockSize |-> IF i \in (idx + 1)..(idx + Len(data)) THEN data[i - idx] ELSE message[i]]

Dropped(msg, n) == SubSeq(msg, n + 1, Len(msg))

(* Whole blocks are processed where they stand if they are aligned, and in *)
(* the context otherwise; what is left is saved.                           *)
Absorbed(c, msg, aligned) ==
    LET whole == (Len(msg) \div BlockSize) * BlockSize
        last  == IF aligned \/ whole = 0 THEN c.message
                 ELSE SubSeq(msg, whole - BlockSize + 1, whole)
    IN  [ hash    |-> c.hash \o SubSeq(msg, 1, whole),
          message |-> CopiedTo(last, 0, Dropped(msg, whole)),
          rest    |-> Len(msg) - whole ]

(* Mutant: a message that ends on the block waits for more input.          *)
sha3_Update_lazy(c, msg, aligned) ==
    LET left == BlockSize - c.rest
    IN  IF c.rest = SHA3_FINALIZED THEN c
        ELSE IF Len(msg) <= left
        THEN [c EXCEPT !.message = CopiedTo(@, c.rest, msg), !.rest = (c.rest + Len(msg)) % BlockSize]
        ELSE Absorbed([c EXCEPT !.hash = sha3_process_block(@,
                                   CopiedTo(c.message, c.rest, SubSeq(msg, 1, left)))],
                      Dropped(msg, left), aligned)

(* A finalized context takes no more input. A block that was begun is      *)
(* filled up first, and processed once it is full.                         *)
sha3_Update(c, msg, aligned) ==
    LET left == BlockSize - c.rest
        full == CopiedTo(c.message, c.rest, SubSeq(msg, 1, left))
    IN  IF c.rest = SHA3_FINALIZED THEN c
        ELSE IF c.rest = 0 THEN Absorbed(c, msg, aligned)
        ELSE IF Len(msg) < left
        THEN [c EXCEPT !.message = CopiedTo(@, c.rest, msg), !.rest = c.rest + Len(msg)]
        ELSE Absorbed([hash |-> sha3_process_block(c.hash, full), message |-> full, rest |-> 0],
                      Dropped(msg, left), aligned)

(* Behind the message comes 0x01, and 0x80 at the end of the block; both   *)
(* may meet in one byte.                                                   *)
Padding(rest) ==
    [i \in 1..(BlockSize - rest) |->
        (IF i = 1 THEN 1 ELSE 0) + (IF i = BlockSize - rest THEN 128 ELSE 0)]

(* Mutant: what an earlier block left behind rest is not cleared.          *)
keccak_Final_uncleared(c) ==
    IF c.rest = SHA3_FINALIZED THEN c.hash
    ELSE sha3_process_block(c.hash,
             [i \in 1..BlockSize |-> IF i = c.rest + 1 THEN 1
                                     ELSE IF i = BlockSize THEN 128 ELSE c.message[i]])

(* What the digest is taken from. *)
keccak_Final(c) ==
    IF c.rest = SHA3_FINALIZED THEN c.hash
    ELSE sha3_process_block(c.hash, CopiedTo(c.message, c.rest, Padding(c.rest)))

keccak_256(data, aligned) == keccak_Final(sha3_Update(Cleared, data, aligned))

(* What Keccak is defined to absorb: the message, with padding of at least *)
(* one byte up to the end of a block.                                      *)
PaddedMessage(msg) == msg \o Padding(Len(msg) % BlockSize)

=============================================================================
