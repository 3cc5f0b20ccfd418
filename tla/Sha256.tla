-------------------------------- MODULE Sha256 --------------------------------
(***************************************************************************)
(* The buffering of src/crypto/sha2.c on a little endian machine: how      *)
(* sha256_Update and sha256_Final cut a message into blocks, and turn the  *)
(* bytes of each into words.  What sha256_Transform computes of a state    *)
(* and a block is not modelled: the answers it has given are in the        *)
(* sequence asked, and a question not asked before is answered by a state  *)
(* that nothing else is answered by.                                       *)
(*                                                                         *)
(* A byte is a source, a position in it and what it is xored with, so that *)
(* the byte 5 is <<Zeros, 0, 5>>. Memory is a sequence of bytes; a word is *)
(* the sequence of its four bytes, the most significant first.             *)
(***************************************************************************)
EXTENDS Integers, SequencesExt, Bitwise

CONSTANTS Zeros,          \* the source of the bytes whose value is known
          InitialHash,    \* sha256_initial_hash_value
          Uninitialized   \* the source of what has not been written

SHA256_BLOCK_LENGTH       == 64
SHA256_SHORT_BLOCK_LENGTH == 56
SHA256_DIGEST_LENGTH      == 32

Byte(n)        == <<Zeros, 0, n>>
Bytes(src, n)  == [i \in 1..n |-> <<src, i, 0>>]
Repeat(b, n)   == [i \in 1..n |-> b]
Zeroed(n)      == Repeat(Byte(0), n)
Xored(mem, n)  == [i \in 1..Len(mem) |-> <<mem[i][1], mem[i][2], mem[i][3] ^^ n>>]

-----------------------------------------------------------------------------
(* Memory read as words, written from words, and REVERSE32 of every word.  *)
Words(mem) ==
    [i \in 1..(Len(mem) \div 4) |->
        <<mem[4 * i], mem[4 * i - 1], mem[4 * i - 2], mem[4 * i - 3]>>]

Memory(words) ==
    [i \in 1..(4 * Len(words)) |-> words[((i - 1) \div 4) + 1][4 - ((i - 1) % 4)]]

REVERSE32(words) == [i \in 1..Len(words) |-> Reverse(words[i])]

(* A word of a number below 2^32. *)
Word(n) == <<Byte(n \div 2^24), Byte((n \div 2^16) % 256), Byte((n \div 256) % 256), Byte(n % 256)>>

memcpy(mem, at, data) ==
    SubSeq(mem, 1, at) \o data \o SubSeq(mem, at + Len(data) + 1, Len(mem))

-----------------------------------------------------------------------------
(* The eight words of an answer. *)
State(n) == [i \in 1..8 |-> [j \in 1..4 |-> <<n, 4 * (i - 1) + j, 0>>]]

sha256_initial_hash_value == State(InitialHash)

Asked(asked, state, data) ==
    IF Contains(asked, <<state, data>>) THEN asked ELSE Append(asked, <<state, data>>)

Answer(asked, state, data) ==
    State(CHOOSE n \in 1..Len(asked) : asked[n] = <<state, data>>)

(* The context c gets the answer. *)
sha256_Transform(c, state, data) ==
    LET asked == Asked(c.asked, state, data)
    IN  [c EXCEPT !.asked = asked, !.answer = Answer(asked, state, data)]

-----------------------------------------------------------------------------
Converted(ctx, n) ==
    LET words == Words(ctx.buffer)
    IN  [ctx EXCEPT !.buffer = Memory(REVERSE32(SubSeq(words, 1, n)) \o SubSeq(words, n + 1, 16))]

TakeState(ctx) == [ctx EXCEPT !.state = ctx.answer]

TransformBuffer(ctx) == TakeState(sha256_Transform(ctx, ctx.state, Words(ctx.buffer)))

(* The block in the buffer is converted to host byte order and processed.  *)
Processed(ctx) == TransformBuffer(Converted(ctx, 16))

UsedSpace(ctx) == (ctx.bitcount \div 8) % SHA256_BLOCK_LENGTH

Filled(ctx, at, data) ==
    [ctx EXCEPT !.buffer = memcpy(@, at, data), !.bitcount = @ + 8 * Len(data)]

(* As many complete blocks as there are, and what is left of the data.     *)
Blocks(ctx, data) ==
    LET n    == Len(data) \div SHA256_BLOCK_LENGTH
        rest == SubSeq(data, n * SHA256_BLOCK_LENGTH + 1, Len(data))
        done == FoldLeft(LAMBDA c, i :
                    Processed(Filled(c, 0, SubSeq(data, (i - 1) * SHA256_BLOCK_LENGTH + 1,
                                                  i * SHA256_BLOCK_LENGTH))),
                    ctx, [i \in 1..n |-> i])
    IN  Filled(done, 0, rest)

sha256_Update(ctx, data) ==
    LET used == UsedSpace(ctx)
        free == SHA256_BLOCK_LENGTH - used
    IN  IF data = << >> THEN ctx
        ELSE IF used = 0 THEN Blocks(ctx, data)
        ELSE IF Len(data) < free THEN Filled(ctx, used, data)
        ELSE Blocks(Processed(Filled(ctx, used, SubSeq(data, 1, free))),
                    SubSeq(data, free + 1, Len(data)))

-----------------------------------------------------------------------------
Put(ctx, at, data) == [ctx EXCEPT !.buffer = memcpy(@, at, data)]

(* What is behind the data in the buffer is overwritten. *)
Cleared(ctx, from, to) == Put(ctx, from, Zeroed(to - from))

(* The length fills the last two words. *)
WithBitcount(ctx) ==
    Put(ctx, SHA256_SHORT_BLOCK_LENGTH, Memory(<<Word(0), Word(ctx.bitcount)>>))

Digested(ctx) == [asked |-> ctx.asked, digest |-> Memory(REVERSE32(ctx.state))]

LastTransform(ctx, used) ==
    Digested(TransformBuffer(WithBitcount(
        Converted(Cleared(ctx, used, SHA256_SHORT_BLOCK_LENGTH), 14))))

(* Mutant: padding that leaves no place for the length gets no second      *)
(* block.                                                                  *)
sha256_Final_tight(ctx) ==
    LET used == UsedSpace(ctx)
    IN  LastTransform(Cleared(Put(ctx, used, <<Byte(128)>>), used + 1, SHA256_BLOCK_LENGTH),
                      SHA256_SHORT_BLOCK_LENGTH)

(* One bit, and zeros up to the length, in a block of its own where the    *)
(* data leaves it no place.                                                *)
sha256_Final(ctx) ==
    LET used  == UsedSpace(ctx)
        begun == Put(ctx, used, <<Byte(128)>>)
    IN  IF used + 1 > SHA256_SHORT_BLOCK_LENGTH
        THEN LastTransform(Processed(Cleared(begun, used + 1, SHA256_BLOCK_LENGTH)), 0)
        ELSE LastTransform(begun, used + 1)

===============================================================================
